---- MODULE Spec2Model ----
(***************************************************************************)
(* A model of the Vibe backend (apps/backend): the route groups auth,      *)
(* users, posts, marketplace and video, each a set of request handlers     *)
(* over module-level in-memory arrays.                                     *)
(*                                                                         *)
(* Every handler body is synchronous JavaScript (the only awaits are       *)
(* jwt.verify in the middlewares / GET /verify and jwt.sign at the end of  *)
(* register and login), so a handler runs to completion: one action is one *)
(* handler invocation, and the interleavings of concurrent requests are    *)
(* the orders in which the actions fire.  Register writes before its await *)
(* and answers after it: it is two actions, and the registrations waiting  *)
(* for jwt.sign are held in `signing` while other requests are served.     *)
(*                                                                         *)
(* The five route groups keep disjoint stores (only `users` is shared, and *)
(* only auth adds to it).  A behaviour addresses one route group, chosen   *)
(* in Init and held in `group`; the stores of the other groups stay as     *)
(* they were constructed.  `resp` keeps the response to the request being  *)
(* answered until it is sent; in the group value "likes" the requests go   *)
(* to the posts routes and the answers to the like calls are kept in       *)
(* `likeLog` instead.                                                      *)
(***************************************************************************)
EXTENDS Integers, Sequences, FiniteSets, TLC

VARIABLES
  group,        \* the route group the requests of this behaviour address
  clock,        \* the wall clock read by `new Date()`
  users,        \* database.ts: export const users: User[]
  userCredentials, \* database.ts: export const userCredentials: Map
  issued,       \* history: the tokens jwt.sign has returned so far
  signing,      \* auth: the ids of the users whose register awaits jwt.sign
  videoRooms,   \* video: const videoRooms: VideoRoom[]
  posts,        \* posts: const posts: Post[]
  likeLog,      \* history: per post, the last run of like calls by one user
  products,     \* marketplace: const products: Product[]
  created,      \* history: per product id, the body submitted at creation
  nextId,       \* the number of ids crypto.randomUUID() has handed out per store
  resp          \* the response to the last request

vars == <<group, clock, users, userCredentials, issued, signing, videoRooms, posts,
          likeLog, products, created, nextId, resp>>

stores == <<users, userCredentials, videoRooms, posts, products>>

-----------------------------------------------------------------------------
(* Bounds of the model *)

NumUsers == 2
MaxRooms == 1
MaxPosts == 2
MaxComments == 1
MaxProducts == 2
MaxClock == 1

-----------------------------------------------------------------------------
(* Values *)

\* JavaScript's undefined (an absent optional field, a missing body key)
Undef == "undefined"

\* An optional value that is not a string: absent, or present with a value
None == <<>>
Some(x) == <<x>>
OrElse(o, d) == IF o = None THEN d ELSE o[1]

Min(a, b) == IF a <= b THEN a ELSE b

Range(s) == {s[i] : i \in 1..Len(s)}

\* Array.prototype.findIndex / indexOf, 1-based; 0 stands for -1
RECURSIVE FindIndexFrom(_, _, _)
FindIndexFrom(s, P(_), i) ==
  IF i > Len(s) THEN 0
  ELSE IF P(s[i]) THEN i
  ELSE FindIndexFrom(s, P, i + 1)

FindIndex(s, P(_)) == FindIndexFrom(s, P, 1)

\* Array.prototype.splice(index, 1)
Splice(s, i) == [k \in 1..(Len(s) - 1) |-> IF k < i THEN s[k] ELSE s[k + 1]]

\* Array.prototype.unshift
Unshift(s, x) == <<x>> \o s


EmailPool == <<"a@vibe.io", "b@vibe.io", "c@vibe.io", "d@vibe.io", "e@vibe.io">>
NamePool == <<"alice", "bobby", "carol", "david", "erika">>
Passwords == {"password1", "password2"}

-----------------------------------------------------------------------------
(* Tokens: @elysiajs/jwt with one secret shared by every route module *)

JwtSecret == "vibe-secret-key-2024"

NoBearer == [present |-> FALSE, userId |-> 0, email |-> "", sig |-> ""]

\* jwt.sign({ userId, email })
JwtSign(userId, email) ==
  [present |-> TRUE, userId |-> userId, email |-> email, sig |-> JwtSecret]

\* A verification that decodes the payload without checking the signature
JwtVerifyDecodeOnly(b) == [ok |-> TRUE, userId |-> b.userId]

\* jwt.verify(bearer): the payload, or false when the signature does not verify
JwtVerify(b) ==
  IF b.sig = JwtSecret
  THEN [ok |-> TRUE, userId |-> b.userId]
  ELSE [ok |-> FALSE, userId |-> 0]

\* a token made by somebody who does not hold the secret
Forge(userId, email) ==
  [present |-> TRUE, userId |-> userId, email |-> email, sig |-> "forged"]

\* users.find(u => u.id === id): the index in users, 0 when there is none
FindUser(id) == FindIndex(users, LAMBDA u : u.id = id)

\* The bearer values a client may send: none, a token the service issued to a
\* registered user, or a forgery naming a registered user.
Bearers == {NoBearer} \cup issued \cup {Forge(1, EmailPool[1])}

BadBearer(b) == ~b.present \/ ~JwtVerify(b).ok

\* The users the database holds when a behaviour addresses a group other
\* than auth: NumUsers registered accounts.
RegisteredUser(i) ==
  [id |-> i, email |-> EmailPool[i], username |-> NamePool[i],
   firstName |-> "F", bio |-> Undef, updatedAt |-> 0]

\* The middleware reading the payload without verifying the token
DeriveUnverified(b) ==
  IF ~b.present
  THEN [thrown |-> TRUE, message |-> "Token manquant", currentUser |-> 0]
  ELSE IF FindUser(b.userId) = 0
  THEN [thrown |-> TRUE, message |-> "Utilisateur non trouve", currentUser |-> 0]
  ELSE [thrown |-> FALSE, message |-> "", currentUser |-> b.userId]

\* The throwing middleware of users, posts and video
\* (.derive(async ({ bearer, jwt }) => ...))
Derive(b) ==
  IF ~b.present
  THEN [thrown |-> TRUE, message |-> "Token manquant", currentUser |-> 0]
  ELSE IF ~JwtVerify(b).ok
  THEN [thrown |-> TRUE, message |-> "Token invalide", currentUser |-> 0]
  ELSE IF FindUser(JwtVerify(b).userId) = 0
  THEN [thrown |-> TRUE, message |-> "Utilisateur non trouve", currentUser |-> 0]
  ELSE [thrown |-> FALSE, message |-> "", currentUser |-> JwtVerify(b).userId]

\* The response of a request the middleware rejected: no handler ran
Thrown(g, route, d) ==
  [group |-> g, route |-> route, handler |-> "none", tag |-> "thrown",
   message |-> d.message, bad |-> TRUE]

\* No response is pending: the last one has been sent
NoResp == [group |-> "", route |-> "", handler |-> "none", tag |-> "none",
           message |-> "", bad |-> FALSE]

\* The response of the handler (or the middleware's error) goes out to the
\* client; the next request is then served.
SendResponse ==
  /\ resp # NoResp
  /\ resp' = NoResp
  /\ UNCHANGED <<group, clock, users, userCredentials, issued, signing, videoRooms,
                 posts, likeLog, products, created, nextId>>

\* The groups whose timestamps a response or a comparison reads; the requests
\* of a behaviour addressing another group are served within one clock reading.
TimedGroups == {"video", "marketplace"}

\* Time passes between two requests: a later `new Date()` reads a later clock
Tick ==
  /\ resp = NoResp
  /\ group \in TimedGroups
  /\ clock < MaxClock
  /\ clock' = clock + 1
  /\ UNCHANGED <<group, users, userCredentials, issued, signing, videoRooms, posts,
                 likeLog, products, created, nextId, resp>>

-----------------------------------------------------------------------------
(* video: routes/video.ts *)

RoomMaxInputs == {2, 3}
RoomPasswordInputs == {Undef, "pw01", "pw02"}

\* videoRooms.find(r => r.id === id): the index, 0 when there is none
FindRoom(id) == FindIndex(videoRooms, LAMBDA r : r.id = id)

\* The test of membership that finds nobody
IsParticipantNever(room, u) == FALSE

\* room.participants.some(p => p.id === currentUser.id)
IsParticipant(room, u) == \E i \in 1..Len(room.participants) : room.participants[i] = u

\* The bodies POST /rooms accepts (name and description are carried like the
\* other settings; one value of name stands for both)
CreateRoomBodies ==
  [name : {"room"}, isPrivate : BOOLEAN, maxParticipants : RoomMaxInputs,
   password : RoomPasswordInputs]

\* The bodies PUT /rooms/:id accepts: every key optional
UpdateRoomBodies ==
  {[name |-> "renamed", isPrivate |-> None, maxParticipants |-> None, password |-> Undef],
   [name |-> Undef, isPrivate |-> Some(TRUE), maxParticipants |-> None, password |-> Undef],
   [name |-> Undef, isPrivate |-> Some(FALSE), maxParticipants |-> Some(2), password |-> Undef],
   [name |-> Undef, isPrivate |-> None, maxParticipants |-> Some(3), password |-> "pw02"],
   [name |-> Undef, isPrivate |-> None, maxParticipants |-> None, password |-> Undef]}

VideoResp(route, u, id, tag, message, room) ==
  [group |-> "video", route |-> route, handler |-> route, tag |-> tag,
   message |-> message, bad |-> FALSE, user |-> u, roomId |-> id, before |-> None,
   supplied |-> Undef, room |-> room, rooms |-> <<>>, total |-> 0, totalPages |-> 0]

\* The capacity test with > in the place of >=
RoomIsFullStrict(room) == Len(room.participants) > room.maxParticipants

\* if (room.participants.length >= room.maxParticipants)
RoomIsFull(room) == Len(room.participants) >= room.maxParticipants

\* The password test that lets a request without password through
PasswordRejectedUnlessMissing(room, body) ==
  /\ room.password # Undef
  /\ body.password # Undef
  /\ body.password # room.password

\* if (room.password) { if (!password || password !== room.password) ... }
PasswordRejected(room, body) ==
  /\ room.password # Undef
  /\ (body.password = Undef \/ body.password # room.password)

\* { ...room, password: undefined, participantCount: room.participants.length }
RoomView(room, password) ==
  [id |-> room.id, name |-> room.name, host |-> room.host,
   participants |-> room.participants, isPrivate |-> room.isPrivate,
   maxParticipants |-> room.maxParticipants, password |-> password,
   status |-> room.status, createdAt |-> room.createdAt,
   updatedAt |-> room.updatedAt, endedAt |-> room.endedAt,
   participantCount |-> Len(room.participants)]

\* The room object itself, as `room` in a response body
RawRoom(room) == RoomView(room, room.password)

\* POST /rooms
CreateRoom(rooms, u, body, t, id) ==
  LET newRoom == [id |-> id, name |-> body.name, host |-> u,
                  participants |-> <<u>>, isPrivate |-> body.isPrivate,
                  maxParticipants |-> body.maxParticipants,
                  password |-> body.password, status |-> "waiting",
                  createdAt |-> t, updatedAt |-> t, endedAt |-> None]
  IN [rooms |-> Unshift(rooms, newRoom),
      resp |-> VideoResp("POST /rooms", u, newRoom.id, "success",
                         "Salle de visio creee avec succes", Some(RawRoom(newRoom)))]

\* The join without the start of the room
JoinedRoomStaysWaiting(room, u, t) ==
  [room EXCEPT !.participants = Append(@, u), !.updatedAt = t]

\* The effect of a successful join on the room
JoinedRoom(room, u, t) ==
  LET pushed == [room EXCEPT !.participants = Append(@, u), !.updatedAt = t]
  IN IF Len(pushed.participants) = 2 /\ pushed.status = "waiting"
     THEN [pushed EXCEPT !.status = "active"]
     ELSE pushed

\* POST /rooms/:id/join
JoinRoom(rooms, u, id, body, t) ==
  LET i == FindIndex(rooms, LAMBDA r : r.id = id)
      R(tag, message, room) ==
        [VideoResp("POST /rooms/:id/join", u, id, tag, message, room)
           EXCEPT !.supplied = body.password]
  IN IF i = 0
     THEN [rooms |-> rooms, resp |-> R("error", "Salle non trouvee", None)]
     ELSE IF rooms[i].status = "ended"
     THEN [rooms |-> rooms, resp |-> R("error", "Cette salle est terminee", None)]
     ELSE IF IsParticipant(rooms[i], u)
     THEN [rooms |-> rooms,
           resp |-> R("success", "Vous etes deja dans cette salle", Some(RawRoom(rooms[i])))]
     ELSE IF RoomIsFull(rooms[i])
     THEN [rooms |-> rooms, resp |-> R("error", "La salle est pleine", None)]
     ELSE IF PasswordRejected(rooms[i], body)
     THEN [rooms |-> rooms, resp |-> R("error", "Mot de passe incorrect", None)]
     ELSE [rooms |-> [rooms EXCEPT ![i] = JoinedRoom(@, u, t)],
           resp |-> R("success", "Vous avez rejoint la salle avec succes",
                      Some(RoomView(JoinedRoom(rooms[i], u, t), Undef)))]

\* The transfer to the last participant in the place of the first
HostAfterLeaveLast(room, u, remaining) ==
  IF room.host = u /\ Len(remaining) > 0 THEN remaining[Len(remaining)] ELSE room.host

\* The leave without the transfer of the host role
HostAfterLeaveNone(room, u, remaining) == room.host

\* if (room.host.id === currentUser.id) { transfer to participants[0] | end }
HostAfterLeave(room, u, remaining) ==
  IF room.host = u /\ Len(remaining) > 0 THEN remaining[1] ELSE room.host

\* The leave without its "plus personne" branches
StatusAfterLeaveKept(room, u, remaining) == room.status

\* The leave that puts a room left with one participant back to waiting
StatusAfterLeaveWaiting(room, u, remaining) ==
  IF Len(remaining) = 0 THEN "ended"
  ELSE IF Len(remaining) = 1 THEN "waiting"
  ELSE room.status

\* room.status after the two "plus personne" branches of leave
StatusAfterLeave(room, u, remaining) ==
  IF Len(remaining) = 0 THEN "ended" ELSE room.status

\* The effect of a successful leave on the room
LeftRoom(room, u, t) ==
  LET k == FindIndex(room.participants, LAMBDA p : p = u)
      remaining == Splice(room.participants, k)
  IN [room EXCEPT !.participants = remaining,
                  !.updatedAt = t,
                  !.host = HostAfterLeave(room, u, remaining),
                  !.status = StatusAfterLeave(room, u, remaining),
                  !.endedAt = IF Len(remaining) = 0 THEN Some(t) ELSE @]

\* POST /rooms/:id/leave
LeaveRoom(rooms, u, id, t) ==
  LET i == FindIndex(rooms, LAMBDA r : r.id = id)
      R(tag, message) == VideoResp("POST /rooms/:id/leave", u, id, tag, message, None)
  IN IF i = 0
     THEN [rooms |-> rooms, resp |-> R("error", "Salle non trouvee")]
     ELSE IF FindIndex(rooms[i].participants, LAMBDA p : p = u) = 0
     THEN [rooms |-> rooms, resp |-> R("error", "Vous n'etes pas dans cette salle")]
     ELSE [rooms |-> [rooms EXCEPT ![i] = LeftRoom(@, u, t)],
           resp |-> R("success", "Vous avez quitte la salle")]

\* The guard of end and of PUT left out
NotHostNever(room, u) == FALSE

\* if (room.host.id !== currentUser.id): the guard of end and of PUT
NotHost(room, u) == room.host # u

\* POST /rooms/:id/end
EndRoom(rooms, u, id, t) ==
  LET i == FindIndex(rooms, LAMBDA r : r.id = id)
      R(tag, message, room) == VideoResp("POST /rooms/:id/end", u, id, tag, message, room)
      ended == [rooms[i] EXCEPT !.status = "ended", !.endedAt = Some(t), !.updatedAt = t]
  IN IF i = 0
     THEN [rooms |-> rooms, resp |-> R("error", "Salle non trouvee", None)]
     ELSE IF NotHost(rooms[i], u)
     THEN [rooms |-> rooms, resp |-> R("error", "Seul l'hote peut terminer la salle", None)]
     ELSE IF rooms[i].status = "ended"
     THEN [rooms |-> rooms, resp |-> R("error", "La salle est deja terminee", None)]
     ELSE [rooms |-> [rooms EXCEPT ![i] = ended],
           resp |-> R("success", "Salle terminee avec succes", Some(RawRoom(ended)))]

\* Object.assign(room, { ...updateData, updatedAt: new Date() })
AssignRoom(room, body, t) ==
  [room EXCEPT
     !.name = IF body.name = Undef THEN @ ELSE body.name,
     !.isPrivate = OrElse(body.isPrivate, @),
     !.maxParticipants = OrElse(body.maxParticipants, @),
     !.password = IF body.password = Undef THEN @ ELSE body.password,
     !.updatedAt = t]

\* PUT /rooms/:id
UpdateRoom(rooms, u, id, body, t) ==
  LET i == FindIndex(rooms, LAMBDA r : r.id = id)
      R(tag, message, room) == VideoResp("PUT /rooms/:id", u, id, tag, message, room)
  IN IF i = 0
     THEN [rooms |-> rooms, resp |-> R("error", "Salle non trouvee", None)]
     ELSE IF NotHost(rooms[i], u)
     THEN [rooms |-> rooms, resp |-> R("error", "Seul l'hote peut modifier la salle", None)]
     ELSE IF rooms[i].status = "ended"
     THEN [rooms |-> rooms,
           resp |-> R("error", "Impossible de modifier une salle terminee", None)]
     ELSE [rooms |-> [rooms EXCEPT ![i] = AssignRoom(@, body, t)],
           resp |-> R("success", "Salle mise a jour avec succes",
                      Some(RawRoom(AssignRoom(rooms[i], body, t))))]

\* Array.prototype.map
Map(s, F(_)) == [k \in 1..Len(s) |-> F(s[k])]

\* Array.prototype.slice(start, end), 0-based and end-exclusive as in JavaScript
Slice(s, start, end) ==
  LET lo == Min(start, Len(s))
      hi == Min(end, Len(s))
  IN [k \in 1..(IF hi > lo THEN hi - lo ELSE 0) |-> s[lo + k]]

\* Math.ceil(n / d) for n >= 0, d >= 1
CeilDiv(n, d) == (n + d - 1) \div d

RoomStatusQueries == {Undef, "waiting", "active", "ended"}

\* GET /rooms
ListRooms(rooms, u, status) ==
  LET wanted == IF status = Undef THEN "waiting" ELSE status
      publicRooms == Map(SelectSeq(rooms, LAMBDA r : ~r.isPrivate /\ r.status = wanted),
                         LAMBDA r : RoomView(r, Undef))
  IN [rooms |-> rooms,
      resp |-> [VideoResp("GET /rooms", 0, 0, "success", wanted, None)
                  EXCEPT !.rooms = publicRooms, !.total = Len(publicRooms)]]

\* The test of a private room that refuses nobody
PrivateRefusedNever(room, u) == FALSE

\* if (room.isPrivate) { if (!isParticipant && !isHost) ... }
PrivateRefused(room, u) == room.isPrivate /\ ~IsParticipant(room, u) /\ room.host # u

\* GET /rooms/:id
GetRoom(rooms, u, id) ==
  LET i == FindIndex(rooms, LAMBDA r : r.id = id)
      R(tag, message, room) == VideoResp("GET /rooms/:id", u, id, tag, message, room)
  IN IF i = 0
     THEN [rooms |-> rooms, resp |-> R("error", "Salle non trouvee", None)]
     ELSE IF PrivateRefused(rooms[i], u)
     THEN [rooms |-> rooms,
           resp |-> R("error", "Acces non autorise a cette salle privee", None)]
     ELSE [rooms |-> rooms,
           resp |-> R("success", "",
                      Some(RoomView(rooms[i], IF rooms[i].host = u
                                              THEN rooms[i].password ELSE Undef)))]

\* The page/limit pairs of GET /history requests (absent: page 1, limit 20)
HistoryQueries == {[page |-> None, limit |-> None], [page |-> Some(1), limit |-> Some(1)],
                   [page |-> Some(2), limit |-> Some(1)]}

\* GET /history
RoomHistory(rooms, u, query) ==
  LET page == OrElse(query.page, 1)
      limit == OrElse(query.limit, 20)
      userRooms == SelectSeq(rooms, LAMBDA r : r.host = u \/ IsParticipant(r, u))
      startIndex == (page - 1) * limit
      paginatedRooms == Slice(userRooms, startIndex, startIndex + limit)
  IN [rooms |-> rooms,
      resp |-> [VideoResp("GET /history", u, 0, "success", "", None)
                  EXCEPT !.rooms = Map(paginatedRooms, LAMBDA r : RoomView(r, Undef)),
                         !.total = Len(userRooms),
                         !.totalPages = CeilDiv(Len(userRooms), limit)]]

\* const room = videoRooms.find(r => r.id === id), as the handler finds it
FoundRoom(id) == IF FindRoom(id) = 0 THEN None ELSE Some(videoRooms[FindRoom(id)])

VideoFrame ==
  UNCHANGED <<users, userCredentials, issued, signing, posts, products, created>>

\* One request to the video group: the middleware, then the handler
VideoRequest(route, b, Handler(_)) ==
  /\ group = "video"
  /\ resp = NoResp
  /\ LET d == Derive(b)
     IN IF d.thrown
        THEN /\ resp' = Thrown("video", route, d)
             /\ videoRooms' = videoRooms
        ELSE /\ resp' = [Handler(d.currentUser).resp
                           EXCEPT !.bad = BadBearer(b),
                                  !.before = FoundRoom(Handler(d.currentUser).resp.roomId)]
             /\ videoRooms' = Handler(d.currentUser).rooms
  /\ nextId' = [nextId EXCEPT !.room = Len(videoRooms')]
  /\ UNCHANGED likeLog
  /\ VideoFrame
  /\ UNCHANGED <<group, clock>>

RoomIds == 1..MaxRooms

PostRooms ==
  \E b \in Bearers, body \in CreateRoomBodies :
    /\ Len(videoRooms) < MaxRooms
    /\ VideoRequest("POST /rooms", b,
                    LAMBDA u : CreateRoom(videoRooms, u, body, clock, nextId.room + 1))

GetRooms ==
  \E b \in Bearers, status \in RoomStatusQueries :
    VideoRequest("GET /rooms", b, LAMBDA u : ListRooms(videoRooms, u, status))

GetRoomById ==
  \E b \in Bearers, id \in RoomIds :
    VideoRequest("GET /rooms/:id", b, LAMBDA u : GetRoom(videoRooms, u, id))

PostRoomsJoin ==
  \E b \in Bearers, id \in RoomIds, pw \in RoomPasswordInputs :
    VideoRequest("POST /rooms/:id/join", b,
                 LAMBDA u : JoinRoom(videoRooms, u, id, [password |-> pw], clock))

PostRoomsLeave ==
  \E b \in Bearers, id \in RoomIds :
    VideoRequest("POST /rooms/:id/leave", b, LAMBDA u : LeaveRoom(videoRooms, u, id, clock))

PostRoomsEnd ==
  \E b \in Bearers, id \in RoomIds :
    VideoRequest("POST /rooms/:id/end", b, LAMBDA u : EndRoom(videoRooms, u, id, clock))

GetHistory ==
  \E b \in Bearers, query \in HistoryQueries :
    VideoRequest("GET /history", b, LAMBDA u : RoomHistory(videoRooms, u, query))

PutRooms ==
  \E b \in Bearers, id \in RoomIds, body \in UpdateRoomBodies :
    VideoRequest("PUT /rooms/:id", b, LAMBDA u : UpdateRoom(videoRooms, u, id, body, clock))

NextVideo ==
  \/ PostRooms
  \/ GetRooms
  \/ GetRoomById
  \/ PostRoomsJoin
  \/ PostRoomsLeave
  \/ PostRoomsEnd
  \/ GetHistory
  \/ PutRooms
  \/ SendResponse
  \/ Tick

-----------------------------------------------------------------------------
(* posts: routes/posts.ts *)

\* The bodies POST / and PUT /:id are sent
PostBodies == {[content |-> "hello", images |-> None],
               [content |-> "edited", images |-> Some(<<"img.png">>)]}
CommentContents == {"nice"}

PostResp(route, u, id, tag, message) ==
  [group |-> "posts", route |-> route, handler |-> route, tag |-> tag,
   message |-> message, bad |-> FALSE, user |-> u, postId |-> id, post |-> None,
   liked |-> FALSE, likesCount |-> 0, comments |-> <<>>, posts |-> <<>>, total |-> 0,
   totalPages |-> 0]

\* { ...post, likesCount: post.likes.length, commentsCount: post.comments.length }
PostView(post) ==
  [id |-> post.id, content |-> post.content, author |-> post.author,
   images |-> post.images, likes |-> post.likes, comments |-> post.comments,
   createdAt |-> post.createdAt, updatedAt |-> post.updatedAt,
   likesCount |-> Len(post.likes), commentsCount |-> Len(post.comments)]

\* POST /
CreatePost(ps, u, body, t, id) ==
  LET newPost == [id |-> id, content |-> body.content, author |-> u,
                  images |-> OrElse(body.images, <<>>), likes |-> <<>>,
                  comments |-> <<>>, createdAt |-> t, updatedAt |-> t]
  IN [posts |-> Unshift(ps, newPost),
      resp |-> [PostResp("POST /", u, id, "success", "Post cree avec succes")
                  EXCEPT !.post = Some(newPost)]]

\* The page/limit pairs of the paginated GET requests (absent: page 1, limit 20)
PageQueries == {[page |-> None, limit |-> None], [page |-> Some(1), limit |-> Some(1)],
                [page |-> Some(2), limit |-> Some(1)]}

\* GET /
ListPosts(ps, u, query) ==
  LET pageNum == OrElse(query.page, 1)
      limitNum == OrElse(query.limit, 20)
      startIndex == (pageNum - 1) * limitNum
  IN [posts |-> ps,
      resp |-> [PostResp("GET /", 0, 0, "success", "")
                  EXCEPT !.posts = Map(Slice(ps, startIndex, startIndex + limitNum), PostView),
                         !.total = Len(ps),
                         !.totalPages = CeilDiv(Len(ps), limitNum)]]

\* GET /:id
GetPost(ps, u, id) ==
  LET i == FindIndex(ps, LAMBDA q : q.id = id)
  IN IF i = 0
     THEN [posts |-> ps, resp |-> PostResp("GET /:id", 0, id, "error", "Post non trouve")]
     ELSE [posts |-> ps,
           resp |-> [PostResp("GET /:id", 0, id, "success", "")
                       EXCEPT !.post = Some(PostView(ps[i]))]]

\* The authorship guard left out
NotAuthorNever(post, u) == FALSE

\* if (post.author.id !== currentUser.id): the guard of PUT and DELETE
NotAuthor(post, u) == post.author # u

\* PUT /:id
UpdatePost(ps, u, id, body, t) ==
  LET i == FindIndex(ps, LAMBDA q : q.id = id)
      R(tag, message) == PostResp("PUT /:id", u, id, tag, message)
      updated == [ps[i] EXCEPT !.content = body.content,
                               !.images = OrElse(body.images, @),
                               !.updatedAt = t]
  IN IF i = 0
     THEN [posts |-> ps, resp |-> R("error", "Post non trouve")]
     ELSE IF NotAuthor(ps[i], u)
     THEN [posts |-> ps,
           resp |-> R("error", "Vous ne pouvez modifier que vos propres posts")]
     ELSE [posts |-> [ps EXCEPT ![i] = updated],
           resp |-> [R("success", "Post mis a jour avec succes")
                       EXCEPT !.post = Some(updated)]]

\* The deletion that splices before it compares the author
DeletePostSpliceFirst(ps, u, id) ==
  LET i == FindIndex(ps, LAMBDA q : q.id = id)
      R(tag, message) == PostResp("DELETE /:id", u, id, tag, message)
  IN IF i = 0
     THEN [posts |-> ps, resp |-> R("error", "Post non trouve")]
     ELSE IF NotAuthor(ps[i], u)
     THEN [posts |-> Splice(ps, i),
           resp |-> R("error", "Vous ne pouvez supprimer que vos propres posts")]
     ELSE [posts |-> Splice(ps, i), resp |-> R("success", "Post supprime avec succes")]

\* DELETE /:id
DeletePost(ps, u, id) ==
  LET i == FindIndex(ps, LAMBDA q : q.id = id)
      R(tag, message) == PostResp("DELETE /:id", u, id, tag, message)
  IN IF i = 0
     THEN [posts |-> ps, resp |-> R("error", "Post non trouve")]
     ELSE IF NotAuthor(ps[i], u)
     THEN [posts |-> ps,
           resp |-> R("error", "Vous ne pouvez supprimer que vos propres posts")]
     ELSE [posts |-> Splice(ps, i), resp |-> R("success", "Post supprime avec succes")]

\* The toggle without its splice branch
ToggleLikePush(likes, u) == Append(likes, u)

\* post.likes after the toggle: push when indexOf is -1, else splice(index, 1)
ToggleLike(likes, u) ==
  LET k == FindIndex(likes, LAMBDA x : x = u)
  IN IF k = 0 THEN Append(likes, u) ELSE Splice(likes, k)

\* POST /:id/like
LikePost(ps, u, id) ==
  LET i == FindIndex(ps, LAMBDA q : q.id = id)
      R(tag, message) == PostResp("POST /:id/like", u, id, tag, message)
      toggled == ToggleLike(ps[i].likes, u)
  IN IF i = 0
     THEN [posts |-> ps, resp |-> R("error", "Post non trouve")]
     ELSE [posts |-> [ps EXCEPT ![i].likes = toggled],
           resp |-> [R("success", IF FindIndex(ps[i].likes, LAMBDA x : x = u) = 0
                                  THEN "Post like" ELSE "Like retire")
                       EXCEPT !.liked = (FindIndex(ps[i].likes, LAMBDA x : x = u) = 0),
                              !.likesCount = Len(toggled)]]

\* POST /:id/comments
AddComment(ps, u, id, body, t, cid) ==
  LET i == FindIndex(ps, LAMBDA q : q.id = id)
      R(tag, message) == PostResp("POST /:id/comments", u, id, tag, message)
      newComment == [id |-> cid, content |-> body.content, author |-> u,
                     postId |-> id, createdAt |-> t, updatedAt |-> t]
  IN IF i = 0
     THEN [posts |-> ps, resp |-> R("error", "Post non trouve")]
     ELSE [posts |-> [ps EXCEPT ![i].comments = Append(@, newComment)],
           resp |-> [R("success", "Commentaire ajoute avec succes")
                       EXCEPT !.comments = <<newComment>>]]

\* GET /:id/comments
GetComments(ps, u, id) ==
  LET i == FindIndex(ps, LAMBDA q : q.id = id)
      R(tag, message) == PostResp("GET /:id/comments", 0, id, tag, message)
  IN IF i = 0
     THEN [posts |-> ps, resp |-> R("error", "Post non trouve")]
     ELSE [posts |-> ps, resp |-> [R("success", "") EXCEPT !.comments = ps[i].comments]]

\* The run of like calls under observation: the likes of post `post` before
\* the first of `n` calls in a row by `user`, and the answers to the first two
NoLike == [liked |-> FALSE, likesCount |-> 0]
NoLikeRun == [post |-> 0, user |-> 0, n |-> 0, before |-> <<>>, r1 |-> NoLike, r2 |-> NoLike]

LikeAnswer(r) == [liked |-> r.liked, likesCount |-> r.likesCount]

\* The observation after a like request of u on post id answered r: the run
\* grows when the request continues it and starts anew otherwise; a request on
\* another post than the observed one may also be left unobserved.
LikeRunsAfter(ps, u, id, r) ==
  LET i == FindIndex(ps, LAMBDA q : q.id = id)
      fresh == [post |-> id, user |-> u, n |-> 1, before |-> ps[i].likes,
                r1 |-> LikeAnswer(r), r2 |-> NoLike]
  IN IF i = 0 THEN {likeLog}
     ELSE IF likeLog.post = id
     THEN IF likeLog.user = u /\ likeLog.n = 1
          THEN {[likeLog EXCEPT !.n = 2, !.r2 = LikeAnswer(r)]}
          ELSE {fresh}
     ELSE {fresh, likeLog}

PostsFrame ==
  UNCHANGED <<users, userCredentials, issued, signing, videoRooms, products, created>>

\* What `resp` keeps of a response
Kept(r) == IF group = "likes" THEN NoResp ELSE r

\* One request to the posts group: the middleware, then the handler
PostsRequest(route, b, Handler(_)) ==
  /\ group \in {"posts", "likes"}
  /\ resp = NoResp
  /\ LET d == Derive(b)
     IN IF d.thrown
        THEN /\ resp' = Kept(Thrown("posts", route, d))
             /\ posts' = posts
        ELSE /\ resp' = Kept([Handler(d.currentUser).resp EXCEPT !.bad = BadBearer(b)])
             /\ posts' = Handler(d.currentUser).posts
  /\ PostsFrame
  /\ UNCHANGED <<group, clock>>

PostIds == 1..MaxPosts

PostPosts ==
  \E b \in Bearers, body \in PostBodies :
    /\ nextId.post < MaxPosts
    /\ PostsRequest("POST /", b,
                    LAMBDA u : CreatePost(posts, u, body, clock, nextId.post + 1))
    /\ nextId' = [nextId EXCEPT !.post = IF posts' # posts THEN @ + 1 ELSE @]
    /\ UNCHANGED likeLog

GetPosts ==
  \E b \in Bearers, query \in PageQueries :
    /\ PostsRequest("GET /", b, LAMBDA u : ListPosts(posts, u, query))
    /\ UNCHANGED <<nextId, likeLog>>

GetPostById ==
  \E b \in Bearers, id \in PostIds :
    /\ PostsRequest("GET /:id", b, LAMBDA u : GetPost(posts, u, id))
    /\ UNCHANGED <<nextId, likeLog>>

PutPost ==
  \E b \in Bearers, id \in PostIds, body \in PostBodies :
    /\ PostsRequest("PUT /:id", b, LAMBDA u : UpdatePost(posts, u, id, body, clock))
    /\ UNCHANGED <<nextId, likeLog>>

DeletePostById ==
  \E b \in Bearers, id \in PostIds :
    /\ PostsRequest("DELETE /:id", b, LAMBDA u : DeletePost(posts, u, id))
    /\ UNCHANGED <<nextId, likeLog>>

PostLike ==
  \E b \in Bearers, id \in PostIds :
    /\ PostsRequest("POST /:id/like", b, LAMBDA u : LikePost(posts, u, id))
    /\ likeLog' \in (IF group # "likes" \/ Derive(b).thrown THEN {likeLog}
                     ELSE LikeRunsAfter(posts, Derive(b).currentUser, id,
                                        LikePost(posts, Derive(b).currentUser, id).resp))
    /\ UNCHANGED nextId

PostComments ==
  \E b \in Bearers, id \in PostIds, content \in CommentContents :
    /\ nextId.comment < MaxComments
    /\ PostsRequest("POST /:id/comments", b,
                    LAMBDA u : AddComment(posts, u, id, [content |-> content], clock,
                                          nextId.comment + 1))
    /\ nextId' = [nextId EXCEPT !.comment = IF posts' # posts THEN @ + 1 ELSE @]
    /\ UNCHANGED likeLog

GetPostComments ==
  \E b \in Bearers, id \in PostIds :
    /\ PostsRequest("GET /:id/comments", b, LAMBDA u : GetComments(posts, u, id))
    /\ UNCHANGED <<nextId, likeLog>>

NextPosts ==
  \/ PostPosts
  \/ GetPosts
  \/ GetPostById
  \/ PutPost
  \/ DeletePostById
  \/ PostLike
  \/ PostComments
  \/ GetPostComments
  \/ SendResponse

\* The posts routes with the like calls under observation
NextLikes ==
  \/ PostPosts
  \/ GetPosts
  \/ GetPostById
  \/ PutPost
  \/ DeletePostById
  \/ PostLike
  \/ PostComments
  \/ GetPostComments

-----------------------------------------------------------------------------
(* marketplace: routes/marketplace.ts *)

\* Strings the search reads are sequences of characters
LowerChar(c) ==
  CASE c = "A" -> "a"
    [] c = "B" -> "b"
    [] c = "C" -> "c"
    [] OTHER -> c

\* String.prototype.toLowerCase
ToLowerCase(str) == [k \in 1..Len(str) |-> LowerChar(str[k])]

\* String.prototype.includes
Includes(str, term) ==
  \E k \in 0..(Len(str) - Len(term)) : SubSeq(str, k + 1, k + Len(term)) = term

\* Array.prototype.some
Some_(s, P(_)) == \E k \in 1..Len(s) : P(s[k])

\* The middleware of marketplace: never throws, currentUser is null (0) for a
\* missing or invalid token
MarketDerive(b) ==
  IF ~b.present THEN 0
  ELSE IF ~JwtVerify(b).ok THEN 0
  ELSE IF FindUser(JwtVerify(b).userId) = 0 THEN 0
  ELSE JwtVerify(b).userId

\* The bodies POST / is sent: the listings the two sellers offer
CreateProductBodies ==
  <<[title |-> <<"A", "b">>, description |-> <<"c">>, price |-> 0, currency |-> "EUR",
    category |-> "sport", condition |-> "new", images |-> <<"a.png">>,
    location |-> Undef, tags |-> << <<"a", "B">> >>],
    [title |-> <<"c">>, description |-> <<"B", "c">>, price |-> 10, currency |-> "USD",
    category |-> "home", condition |-> "good", images |-> <<>>,
    location |-> "Paris", tags |-> <<>>]>>

\* The listing a user offers (the users past the second offer the second one)
BodyOf(u) == CreateProductBodies[IF u = 1 THEN 1 ELSE 2]

NoUpdate ==
  [title |-> None, description |-> None, price |-> None, condition |-> None,
   images |-> None, location |-> None, status |-> None, tags |-> None]

\* The bodies PUT /:id is sent: every key optional
UpdateProductBodies ==
  {NoUpdate,
   [NoUpdate EXCEPT !.status = Some("reserved")],
   [NoUpdate EXCEPT !.title = Some(<<"b">>), !.description = Some(<<"A">>),
                    !.price = Some(5), !.condition = Some("fair"),
                    !.images = Some(<<>>), !.location = Some("Lyon"),
                    !.tags = Some(<< <<"C">> >>)]}

MarketResp(route, u, id, tag, message) ==
  [group |-> "marketplace", route |-> route, handler |-> route, tag |-> tag,
   message |-> message, bad |-> FALSE, user |-> u, productId |-> id,
   product |-> None, products |-> <<>>, query |-> None, total |-> 0, totalPages |-> 0,
   order |-> <<>>, body |-> None]

NoQuery ==
  [page |-> None, limit |-> None, category |-> Undef, minPrice |-> None,
   maxPrice |-> None, condition |-> Undef, status |-> Undef, search |-> None,
   sortBy |-> Undef, sortOrder |-> Undef]

\* The query strings GET / is sent
ListQueries ==
  {NoQuery,
   [NoQuery EXCEPT !.category = "sport", !.sortBy = "price", !.sortOrder = "asc"],
   [NoQuery EXCEPT !.category = "", !.page = Some(2), !.limit = Some(1)],
   [NoQuery EXCEPT !.minPrice = Some(0), !.maxPrice = Some(5), !.status = "reserved"],
   [NoQuery EXCEPT !.minPrice = Some(5), !.sortBy = "price", !.limit = Some(1)],
   [NoQuery EXCEPT !.condition = "good", !.status = "sold"],
   [NoQuery EXCEPT !.search = Some(<<"B">>), !.sortBy = "createdAt", !.sortOrder = "asc"],
   [NoQuery EXCEPT !.search = Some(<<>>), !.maxPrice = Some(0)]}

\* if (category) filter: an empty string is falsy
CategoryKept(p, category) == category = Undef \/ category = "" \/ p.category = category

\* if (minPrice !== undefined) filter
MinPriceKept(p, minPrice) == minPrice = None \/ p.price >= minPrice[1]

\* The maxPrice filter with < in the place of <=
MaxPriceKeptStrict(p, maxPrice) == maxPrice = None \/ p.price < maxPrice[1]

\* if (maxPrice !== undefined) filter
MaxPriceKept(p, maxPrice) == maxPrice = None \/ p.price <= maxPrice[1]

\* if (condition) filter
ConditionKept(p, condition) == condition = Undef \/ p.condition = condition

\* if (search) filter: an empty search term is falsy
SearchKept(p, search) ==
  \/ search = None
  \/ search = <<>>
  \/ LET searchTerm == ToLowerCase(search[1])
     IN \/ Includes(ToLowerCase(p.title), searchTerm)
        \/ Includes(ToLowerCase(p.description), searchTerm)
        \/ Some_(p.tags, LAMBDA tag : Includes(ToLowerCase(tag), searchTerm))

\* The chain of filters of GET /
FilterProducts(ps, query) ==
  LET status == IF query.status = Undef THEN "available" ELSE query.status
  IN SelectSeq(ps, LAMBDA p : /\ p.status = status
                              /\ CategoryKept(p, query.category)
                              /\ MinPriceKept(p, query.minPrice)
                              /\ MaxPriceKept(p, query.maxPrice)
                              /\ ConditionKept(p, query.condition)
                              /\ SearchKept(p, query.search))

\* a[sortBy]: the sort key of a product (every product has price and createdAt)
SortKey(p, sortBy) == IF sortBy = "price" THEN p.price ELSE p.createdAt

\* The comparator without its sortOrder === 'asc' branch
CompareDescOnly(a, b, sortBy, sortOrder) ==
  IF SortKey(a, sortBy) < SortKey(b, sortBy) THEN 1 ELSE -1

\* The comparator of the sort: it never answers 0 when both keys are defined
Compare(a, b, sortBy, sortOrder) ==
  IF sortOrder = "asc"
  THEN IF SortKey(a, sortBy) > SortKey(b, sortBy) THEN 1 ELSE -1
  ELSE IF SortKey(a, sortBy) < SortKey(b, sortBy) THEN 1 ELSE -1

Orders(n) == {f \in [1..n -> 1..n] : \A i, j \in 1..n : i # j => f[i] # f[j]}

\* filteredProducts.sort(comparator): the orders Array.prototype.sort may leave.
\* Where the comparator is consistent the order is the sorted one; two elements
\* with equal keys compare -1 both ways, and their order is the engine's.
SortOutcomes(ps, sortBy, sortOrder) ==
  LET by == IF sortBy = Undef THEN "createdAt" ELSE sortBy
      order == IF sortOrder = Undef THEN "desc" ELSE sortOrder
  IN {[k \in 1..Len(ps) |-> ps[f[k]]] : f \in
        {g \in Orders(Len(ps)) :
           \A i, j \in 1..Len(ps) :
             (i < j /\ SortKey(ps[g[i]], by) # SortKey(ps[g[j]], by))
               => Compare(ps[g[i]], ps[g[j]], by, order) < 0}}

\* GET /: the response for one outcome of the sort
ListProducts(sorted, query) ==
  LET page == OrElse(query.page, 1)
      limit == OrElse(query.limit, 20)
      startIndex == (page - 1) * limit
  IN [MarketResp("GET /", 0, 0, "success", "")
        EXCEPT !.products = Slice(sorted, startIndex, startIndex + limit),
               !.query = Some(query),
               !.order = sorted,
               !.total = Len(sorted),
               !.totalPages = CeilDiv(Len(sorted), limit)]

\* GET /:id
GetProduct(ps, id) ==
  LET i == FindIndex(ps, LAMBDA p : p.id = id)
  IN IF i = 0
     THEN MarketResp("GET /:id", 0, id, "error", "Produit non trouve")
     ELSE [MarketResp("GET /:id", 0, id, "success", "") EXCEPT !.product = Some(ps[i])]

\* The new product with the tags of the body left out
NewProductNoTags(body, u, t, id) ==
  [id |-> id, title |-> body.title, description |-> body.description,
   price |-> body.price, currency |-> body.currency, category |-> body.category,
   condition |-> body.condition, images |-> body.images, seller |-> u,
   location |-> body.location, status |-> "available", tags |-> <<>>,
   createdAt |-> t, updatedAt |-> t]

\* { id, ...productData, seller, status: 'available', createdAt, updatedAt }
NewProduct(body, u, t, id) ==
  [id |-> id, title |-> body.title, description |-> body.description,
   price |-> body.price, currency |-> body.currency, category |-> body.category,
   condition |-> body.condition, images |-> body.images, seller |-> u,
   location |-> body.location, status |-> "available", tags |-> body.tags,
   createdAt |-> t, updatedAt |-> t]

\* POST /
CreateProduct(ps, u, body, t, id) ==
  IF u = 0
  THEN [products |-> ps,
        resp |-> MarketResp("POST /", u, 0, "error", "Authentification requise")]
  ELSE [products |-> Unshift(ps, NewProduct(body, u, t, id)),
        resp |-> [MarketResp("POST /", u, id, "success", "Produit cree avec succes")
                    EXCEPT !.product = Some(NewProduct(body, u, t, id))]]

\* The merge that writes undefined for a location the body does not carry
AssignProductLocationLost(p, body, t) ==
  [p EXCEPT !.title = OrElse(body.title, @),
            !.description = OrElse(body.description, @),
            !.price = OrElse(body.price, @),
            !.condition = OrElse(body.condition, @),
            !.images = OrElse(body.images, @),
            !.location = OrElse(body.location, Undef),
            !.status = OrElse(body.status, @),
            !.tags = OrElse(body.tags, @),
            !.updatedAt = t]

\* Object.assign(product, { ...updateData, updatedAt: new Date() })
AssignProduct(p, body, t) ==
  [p EXCEPT !.title = OrElse(body.title, @),
            !.description = OrElse(body.description, @),
            !.price = OrElse(body.price, @),
            !.condition = OrElse(body.condition, @),
            !.images = OrElse(body.images, @),
            !.location = OrElse(body.location, @),
            !.status = OrElse(body.status, @),
            !.tags = OrElse(body.tags, @),
            !.updatedAt = t]

\* The ownership guard left out
NotSellerNever(p, u) == FALSE

\* if (product.seller.id !== currentUser.id): the guard of PUT, DELETE, mark-sold
NotSeller(p, u) == p.seller # u

\* PUT /:id
UpdateProduct(ps, u, id, body, t) ==
  LET i == FindIndex(ps, LAMBDA p : p.id = id)
      R(tag, message) == [MarketResp("PUT /:id", u, id, tag, message)
                            EXCEPT !.body = Some(body)]
  IN IF u = 0
     THEN [products |-> ps, resp |-> R("error", "Authentification requise")]
     ELSE IF i = 0
     THEN [products |-> ps, resp |-> R("error", "Produit non trouve")]
     ELSE IF NotSeller(ps[i], u)
     THEN [products |-> ps,
           resp |-> R("error", "Vous ne pouvez modifier que vos propres produits")]
     ELSE [products |-> [ps EXCEPT ![i] = AssignProduct(@, body, t)],
           resp |-> [R("success", "Produit mis a jour avec succes")
                       EXCEPT !.product = Some(AssignProduct(ps[i], body, t))]]

\* DELETE /:id
DeleteProduct(ps, u, id) ==
  LET i == FindIndex(ps, LAMBDA p : p.id = id)
      R(tag, message) == MarketResp("DELETE /:id", u, id, tag, message)
  IN IF u = 0
     THEN [products |-> ps, resp |-> R("error", "Authentification requise")]
     ELSE IF i = 0
     THEN [products |-> ps, resp |-> R("error", "Produit non trouve")]
     ELSE IF NotSeller(ps[i], u)
     THEN [products |-> ps,
           resp |-> R("error", "Vous ne pouvez supprimer que vos propres produits")]
     ELSE [products |-> Splice(ps, i), resp |-> R("success", "Produit supprime avec succes")]

\* GET /seller/:sellerId
SellerProducts(ps, sellerId) ==
  LET sellerProducts == SelectSeq(ps, LAMBDA p : p.seller = sellerId)
  IN [MarketResp("GET /seller/:sellerId", 0, sellerId, "success", "")
        EXCEPT !.products = sellerProducts, !.total = Len(sellerProducts)]

\* The mark that reserves the product in the place of selling it
MarkedReserved(p, t) == [p EXCEPT !.status = "reserved", !.updatedAt = t]

\* product.status = 'sold'; product.updatedAt = new Date()
MarkedSold(p, t) == [p EXCEPT !.status = "sold", !.updatedAt = t]

\* POST /:id/mark-sold
MarkSold(ps, u, id, t) ==
  LET i == FindIndex(ps, LAMBDA p : p.id = id)
      R(tag, message) == MarketResp("POST /:id/mark-sold", u, id, tag, message)
      sold == MarkedSold(ps[i], t)
  IN IF u = 0
     THEN [products |-> ps, resp |-> R("error", "Authentification requise")]
     ELSE IF i = 0
     THEN [products |-> ps, resp |-> R("error", "Produit non trouve")]
     ELSE IF NotSeller(ps[i], u)
     THEN [products |-> ps,
           resp |-> R("error", "Vous ne pouvez modifier que vos propres produits")]
     ELSE [products |-> [ps EXCEPT ![i] = sold],
           resp |-> [R("success", "Produit marque comme vendu")
                       EXCEPT !.product = Some(sold)]]

MarketFrame ==
  UNCHANGED <<users, userCredentials, issued, signing, videoRooms, posts, likeLog>>

\* One request to the marketplace group: the middleware, then the handler
MarketRequest(b, out) ==
  /\ group = "marketplace"
  /\ resp = NoResp
  /\ resp' = [out.resp EXCEPT !.bad = BadBearer(b)]
  /\ products' = out.products
  /\ MarketFrame
  /\ UNCHANGED <<group, clock>>

\* The history of a product id: what was submitted at its creation, and
\* whether a PUT, a DELETE or a mark-sold has succeeded on it since
Submitted(body, u) == [body |-> body, seller |-> u, touched |-> FALSE]

Touched(id) ==
  IF products' # products /\ id \in 1..Len(created)
  THEN [created EXCEPT ![id].touched = TRUE]
  ELSE created

ProductIds == 1..MaxProducts

GetProducts ==
  \E b \in Bearers, query \in ListQueries :
    \E sorted \in SortOutcomes(FilterProducts(products, query), query.sortBy, query.sortOrder) :
      /\ MarketRequest(b, [products |-> products, resp |-> ListProducts(sorted, query)])
      /\ UNCHANGED <<nextId, created>>

GetProductById ==
  \E b \in Bearers, id \in ProductIds :
    /\ MarketRequest(b, [products |-> products, resp |-> GetProduct(products, id)])
    /\ UNCHANGED <<nextId, created>>

PostProducts ==
  \E b \in Bearers : \E body \in {BodyOf(MarketDerive(b))} :
    /\ nextId.product < MaxProducts
    /\ MarketRequest(b, CreateProduct(products, MarketDerive(b), body, clock,
                                      nextId.product + 1))
    /\ nextId' = [nextId EXCEPT !.product = IF products' # products THEN @ + 1 ELSE @]
    /\ created' = IF products' # products
                  THEN Append(created, Submitted(body, MarketDerive(b)))
                  ELSE created

PutProduct ==
  \E b \in Bearers, id \in ProductIds, body \in UpdateProductBodies :
    /\ MarketRequest(b, UpdateProduct(products, MarketDerive(b), id, body, clock))
    /\ created' = IF resp'.tag = "success" /\ id \in 1..Len(created)
                  THEN [created EXCEPT ![id].touched = TRUE] ELSE created
    /\ UNCHANGED nextId

DeleteProductById ==
  \E b \in Bearers, id \in ProductIds :
    /\ MarketRequest(b, DeleteProduct(products, MarketDerive(b), id))
    /\ created' = Touched(id)
    /\ UNCHANGED nextId

GetSellerProducts ==
  \E b \in Bearers, sellerId \in 1..NumUsers :
    /\ MarketRequest(b, [products |-> products, resp |-> SellerProducts(products, sellerId)])
    /\ UNCHANGED <<nextId, created>>

GetCategories ==
  \E b \in Bearers :
    /\ MarketRequest(b, [products |-> products,
                         resp |-> [MarketResp("GET /categories", 0, 0, "success", "")
                                     EXCEPT !.total = Cardinality({products[k].category :
                                                                     k \in 1..Len(products)})]])
    /\ UNCHANGED <<nextId, created>>

PostMarkSold ==
  \E b \in Bearers, id \in ProductIds :
    /\ MarketRequest(b, MarkSold(products, MarketDerive(b), id, clock))
    /\ created' = IF resp'.tag = "success" /\ id \in 1..Len(created)
                  THEN [created EXCEPT ![id].touched = TRUE] ELSE created
    /\ UNCHANGED nextId

NextMarket ==
  \/ GetProducts
  \/ GetProductById
  \/ PostProducts
  \/ PutProduct
  \/ DeleteProductById
  \/ GetSellerProducts
  \/ GetCategories
  \/ PostMarkSold
  \/ SendResponse
  \/ Tick

-----------------------------------------------------------------------------
(* auth: routes/auth.ts, and users: routes/users.ts *)

EmailInputs == {EmailPool[i] : i \in 1..NumUsers}
NameInputs == {NamePool[i] : i \in 1..NumUsers}

AuthResp(g, route, tag, message) ==
  [group |-> g, route |-> route, handler |-> route, tag |-> tag, message |-> message,
   bad |-> FALSE, user |-> None, token |-> NoBearer,
   bearer |-> NoBearer, email |-> "", username |-> "", password |-> ""]

\* The test of register that compares the email alone
UserExistsEmailOnly(us, email, username) ==
  FindIndex(us, LAMBDA u : u.email = email) # 0

\* users.find(u => u.email === email || u.username === username)
UserExists(us, email, username) ==
  FindIndex(us, LAMBDA u : u.email = email \/ u.username = username) # 0

\* The set that stores nothing
MapSetDropped(m, k, v) == m

\* userCredentials.set(email, password)
MapSet(m, k, v) == [x \in DOMAIN m \cup {k} |-> IF x = k THEN v ELSE m[x]]

\* POST /register up to `await jwt.sign(...)`: the test, the two writes and
\* the call of jwt.sign; `awaiting` is the id of the user whose token is
\* being signed, None when the handler has returned the error
Register(us, creds, body, t, id) ==
  LET newUser == [id |-> id, email |-> body.email, username |-> body.username,
                  firstName |-> body.firstName, bio |-> Undef, updatedAt |-> t]
  IN IF UserExists(us, body.email, body.username)
     THEN [users |-> us, creds |-> creds, awaiting |-> None,
           resp |-> AuthResp("auth", "POST /register", "error",
                             "Un utilisateur avec cet email ou ce nom d'utilisateur existe deja")]
     ELSE [users |-> Append(us, newUser),
           creds |-> MapSet(creds, body.email, body.password),
           awaiting |-> Some(newUser.id),
           resp |-> NoResp]

\* POST /register after the await: { success: true, user: newUser, token },
\* newUser being the object held in users
Registered(us, id) ==
  LET newUser == us[FindIndex(us, LAMBDA u : u.id = id)]
  IN [AuthResp("auth", "POST /register", "success", "")
        EXCEPT !.user = Some(newUser),
               !.token = JwtSign(newUser.id, newUser.email)]

\* The credentials test without the comparison of the password
CredentialsRejectedHasOnly(creds, email, password) == email \notin DOMAIN creds

\* if (!userCredentials.has(email) || userCredentials.get(email) !== password)
CredentialsRejected(creds, email, password) ==
  email \notin DOMAIN creds \/ creds[email] # password

\* POST /login
Login(us, creds, body) ==
  LET i == FindIndex(us, LAMBDA u : u.email = body.email)
      R(tag, message) == AuthResp("auth", "POST /login", tag, message)
  IN IF CredentialsRejected(creds, body.email, body.password)
     THEN R("error", "Email ou mot de passe incorrect")
     ELSE IF i = 0
     THEN R("error", "Utilisateur non trouve")
     ELSE [R("success", "") EXCEPT !.user = Some(us[i]),
                                   !.token = JwtSign(us[i].id, us[i].email)]

\* GET /verify
Verify(us, b) ==
  LET R(tag, message) == AuthResp("auth", "GET /verify", tag, message)
      i == FindIndex(us, LAMBDA u : u.id = JwtVerify(b).userId)
  IN IF ~b.present
     THEN R("error", "Token manquant")
     ELSE IF ~JwtVerify(b).ok
     THEN R("error", "Token invalide")
     ELSE IF i = 0
     THEN R("error", "Utilisateur non trouve")
     ELSE [R("success", "") EXCEPT !.user = Some(us[i])]

\* The logout that removes the account of the token it is sent with
LogoutRemovingUser(us, b) ==
  [users |-> SelectSeq(us, LAMBDA u : u.id # b.userId),
   resp |-> AuthResp("auth", "POST /logout", "success", "Deconnexion reussie")]

\* POST /logout: return { success: true, message }, the token not even read
Logout(us, b) ==
  [users |-> us,
   resp |-> AuthResp("auth", "POST /logout", "success", "Deconnexion reussie")]

\* The bodies PUT /me is sent: every key optional
ProfileBodies == {[firstName |-> Undef, bio |-> Undef],
                  [firstName |-> "G", bio |-> Undef],
                  [firstName |-> Undef, bio |-> "hi"]}

\* Object.assign(currentUser, { ...updateData, updatedAt: new Date() })
AssignProfile(user, body, t) ==
  [user EXCEPT !.firstName = IF body.firstName = Undef THEN @ ELSE body.firstName,
               !.bio = IF body.bio = Undef THEN @ ELSE body.bio,
               !.updatedAt = t]

\* PUT /me: currentUser is the object held in users
UpdateProfile(us, uid, body, t) ==
  LET i == FindIndex(us, LAMBDA u : u.id = uid)
  IN [users |-> [us EXCEPT ![i] = AssignProfile(@, body, t)],
      resp |-> [AuthResp("users", "PUT /me", "success", "Profil mis a jour avec succes")
                  EXCEPT !.user = Some(AssignProfile(us[i], body, t))]]

\* GET /me
GetMe(us, uid) ==
  [AuthResp("users", "GET /me", "success", "")
     EXCEPT !.user = Some(us[FindIndex(us, LAMBDA u : u.id = uid)])]

\* GET /:id of the users group
GetUser(us, id) ==
  LET i == FindIndex(us, LAMBDA u : u.id = id)
  IN IF i = 0
     THEN AuthResp("users", "GET /:id", "error", "Utilisateur non trouve")
     ELSE [AuthResp("users", "GET /:id", "success", "") EXCEPT !.user = Some(us[i])]

AuthFrame == UNCHANGED <<videoRooms, posts, likeLog, products, created, group, clock>>

\* One request to the auth group (no middleware)
AuthRequest(b, out) ==
  /\ group = "auth"
  /\ resp = NoResp
  /\ resp' = [out.resp EXCEPT !.bad = BadBearer(b), !.bearer = b]
  /\ users' = out.users
  /\ userCredentials' = out.creds
  /\ issued' = IF out.resp.token.present THEN issued \cup {out.resp.token} ELSE issued
  /\ nextId' = [nextId EXCEPT !.user = Len(out.users)]
  /\ signing' = signing
  /\ AuthFrame

\* One request to the users group: the middleware, then the handler
UsersRequest(route, b, Handler(_)) ==
  /\ group = "auth"
  /\ resp = NoResp
  /\ LET d == Derive(b)
     IN IF d.thrown
        THEN /\ resp' = Thrown("users", route, d)
             /\ users' = users
        ELSE /\ resp' = [Handler(d.currentUser).resp EXCEPT !.bad = BadBearer(b)]
             /\ users' = Handler(d.currentUser).users
  /\ UNCHANGED <<userCredentials, issued, signing, nextId>>
  /\ AuthFrame

\* POST /register: the handler, which reads no bearer, runs to its await or
\* to the error it returns
PostRegister ==
  \E email \in EmailInputs, username \in NameInputs, password \in Passwords :
    LET out == Register(users, userCredentials,
                        [email |-> email, username |-> username,
                         password |-> password, firstName |-> "F"],
                        clock, nextId.user + 1)
    IN /\ group = "auth"
       /\ resp = NoResp
       /\ users' = out.users
       /\ userCredentials' = out.creds
       /\ nextId' = [nextId EXCEPT !.user = Len(out.users)]
       /\ IF out.awaiting = None
          THEN /\ resp' = [out.resp EXCEPT !.email = email, !.username = username]
               /\ signing' = signing
          ELSE /\ resp' = NoResp
               /\ signing' = signing \cup {out.awaiting[1]}
       /\ issued' = issued
       /\ AuthFrame

\* jwt.sign resolves for one of the suspended registrations, which answers
PostRegisterSigned ==
  \E id \in signing :
    /\ group = "auth"
    /\ resp = NoResp
    /\ resp' = Registered(users, id)
    /\ signing' = signing \ {id}
    /\ issued' = issued \cup {Registered(users, id).token}
    /\ UNCHANGED <<users, userCredentials, nextId>>
    /\ AuthFrame

PostLogin ==
  \E b \in Bearers, email \in EmailInputs, password \in Passwords :
    AuthRequest(b, [users |-> users, creds |-> userCredentials,
                    resp |-> [Login(users, userCredentials,
                                    [email |-> email, password |-> password])
                                EXCEPT !.email = email, !.password = password]])

GetVerify ==
  \E b \in Bearers :
    AuthRequest(b, [users |-> users, creds |-> userCredentials, resp |-> Verify(users, b)])

PostLogout ==
  \E b \in Bearers :
    AuthRequest(b, [users |-> Logout(users, b).users, creds |-> userCredentials,
                    resp |-> Logout(users, b).resp])

GetUsersMe ==
  \E b \in Bearers :
    UsersRequest("GET /me", b, LAMBDA u : [users |-> users, resp |-> GetMe(users, u)])

GetUsersById ==
  \E b \in Bearers, id \in 1..NumUsers :
    UsersRequest("GET /:id", b, LAMBDA u : [users |-> users, resp |-> GetUser(users, id)])

PutUsersMe ==
  \E b \in Bearers, body \in ProfileBodies :
    UsersRequest("PUT /me", b, LAMBDA u : UpdateProfile(users, u, body, clock))

\* GET /search: the schema admits a q of two characters or more, so the
\* handler's own length test passes; the matching users are not kept in resp
GetUsersSearch ==
  \E b \in Bearers :
    UsersRequest("GET /search", b,
                 LAMBDA u : [users |-> users,
                             resp |-> AuthResp("users", "GET /search", "success", "")])

\* GET /suggestions: filter, sort and slice work on a copy of users
GetUsersSuggestions ==
  \E b \in Bearers :
    UsersRequest("GET /suggestions", b,
                 LAMBDA u : [users |-> users,
                             resp |-> AuthResp("users", "GET /suggestions", "success", "")])

NextAuth ==
  \/ PostRegister
  \/ PostRegisterSigned
  \/ PostLogin
  \/ GetVerify
  \/ PostLogout
  \/ GetUsersMe
  \/ GetUsersById
  \/ PutUsersMe
  \/ GetUsersSearch
  \/ GetUsersSuggestions
  \/ SendResponse

-----------------------------------------------------------------------------
(* Specifications *)

\* The accounts registered before the first request to a group: NumUsers, and
\* one more for video, where a room of two leaves a third user to turn away
Accounts(g) == IF g = "video" THEN NumUsers + 1 ELSE NumUsers

\* The state after construction and the registration of n accounts
InitStores(n) ==
  /\ clock = 0
  /\ users = [i \in 1..n |-> RegisteredUser(i)]
  /\ userCredentials = [e \in {EmailPool[i] : i \in 1..n} |-> "password1"]
  /\ issued = {JwtSign(i, EmailPool[i]) : i \in 1..n}
  /\ signing = {}
  /\ videoRooms = <<>>
  /\ posts = <<>>
  /\ likeLog = NoLikeRun
  /\ products = <<>>
  /\ created = <<>>
  /\ nextId = [room |-> 0, post |-> 0, comment |-> 0, product |-> 0, user |-> n]
  /\ resp = NoResp

InitVideo == group = "video" /\ InitStores(Accounts("video"))

SpecVideo == InitVideo /\ [][NextVideo]_vars

InitPosts == group = "posts" /\ InitStores(Accounts("posts"))

SpecPosts == InitPosts /\ [][NextPosts]_vars

InitMarket == group = "marketplace" /\ InitStores(Accounts("marketplace"))

SpecMarket == InitMarket /\ [][NextMarket]_vars

\* The state after construction: nobody has registered
InitAuth == group = "auth" /\ InitStores(0)

SpecAuth == InitAuth /\ [][NextAuth]_vars

InitLikes == group = "likes" /\ InitStores(Accounts("likes"))

SpecLikes == InitLikes /\ [][NextLikes]_vars

\* The health check of the app: GET / answers an object without a tag
GetRoot ==
  /\ group = "app"
  /\ resp = NoResp
  /\ resp' = [group |-> "app", route |-> "GET /", handler |-> "GET /", tag |-> "none",
              message |-> "Vibe Social Network API", bad |-> FALSE]
  /\ UNCHANGED <<group, clock, users, userCredentials, issued, signing, videoRooms,
                 posts, likeLog, products, created, nextId>>

InitApp == group = "app" /\ InitStores(0)

\* Every route group and the app's own route, the requests of a behaviour
\* going to one of them
Init == InitAuth \/ InitPosts \/ InitMarket \/ InitVideo \/ InitApp

Next == NextAuth \/ NextPosts \/ NextMarket \/ NextVideo \/ GetRoot

Spec == Init /\ [][Next]_vars

-----------------------------------------------------------------------------
(* Properties of the video rooms (SpecVideo) *)

\* C1: a join by a user who is not a participant of a non-ended room whose
\* participant count has reached or passed maxParticipants is answered with
\* the error 'La salle est pleine' and leaves the rooms (participants, host,
\* status) as they were, in whatever order the requests before it were served.
C1_JoinFullRoomRejected ==
  [][\A i \in 1..Len(videoRooms) :
       (/\ resp = NoResp
        /\ resp'.group = "video"
        /\ resp'.route = "POST /rooms/:id/join"
        /\ resp'.handler # "none"
        /\ videoRooms[i].id = resp'.roomId
        /\ videoRooms[i].status # "ended"
        /\ resp'.user \notin Range(videoRooms[i].participants)
        /\ Len(videoRooms[i].participants) >= videoRooms[i].maxParticipants)
       => /\ resp'.tag = "error"
          /\ resp'.message = "La salle est pleine"
          /\ videoRooms' = videoRooms]_vars

\* A third user has been turned away from a room two others filled
C1_FullRoomJoinAnswered ==
  /\ resp.group = "video"
  /\ resp.route = "POST /rooms/:id/join"
  /\ resp.message = "La salle est pleine"
  /\ resp.before # None
  /\ Len(resp.before[1].participants) >= resp.before[1].maxParticipants
  /\ resp.before[1].status = "active"
  /\ resp.user \notin Range(resp.before[1].participants)

\* C4: the host of a room changes only in a successful leave by its host that
\* leaves a participant behind; the host is then the first of the remaining
\* participants and the status is as before.  No other request (a leave by
\* another participant, a join, an end, a PUT) changes the host.
C4_HostChangesOnlyByHostLeave ==
  [][\A i \in 1..Len(videoRooms) : \A j \in 1..Len(videoRooms') :
       videoRooms[i].id = videoRooms'[j].id =>
         LET old == videoRooms[i]
             new == videoRooms'[j]
             rest == SelectSeq(old.participants, LAMBDA p : p # old.host)
             hostLeft == /\ resp'.group = "video"
                         /\ resp'.route = "POST /rooms/:id/leave"
                         /\ resp'.tag = "success"
                         /\ resp'.roomId = old.id
                         /\ resp'.user = old.host
         IN /\ (new.host # old.host) => (hostLeft /\ Len(rest) > 0)
            /\ (hostLeft /\ Len(rest) > 0) =>
                 /\ new.host = rest[1]
                 /\ new.participants = rest
                 /\ new.status = old.status]_vars

\* The host has left a room of three: the second to have joined is the host
C4_HostTransferred ==
  /\ resp.group = "video"
  /\ resp.route = "POST /rooms/:id/leave"
  /\ resp.tag = "success"
  /\ resp.before # None
  /\ resp.before[1].host = resp.user
  /\ Len(resp.before[1].participants) = 3
  /\ \E i \in 1..Len(videoRooms) :
       /\ videoRooms[i].id = resp.roomId
       /\ videoRooms[i].host = resp.before[1].participants[2]
       /\ videoRooms[i].host # resp.user

\* C5: in every reachable state a room without participants has status
\* 'ended' and an endedAt: the leave of the last participant ends the room.
C5_EmptyRoomEnded ==
  \A i \in 1..Len(videoRooms) :
    Len(videoRooms[i].participants) = 0 =>
      /\ videoRooms[i].status = "ended"
      /\ videoRooms[i].endedAt # None

\* The last participant has left a room that was active
C5_LastParticipantLeft ==
  /\ resp.group = "video"
  /\ resp.route = "POST /rooms/:id/leave"
  /\ resp.tag = "success"
  /\ resp.before # None
  /\ resp.before[1].status = "active"
  /\ resp.before[1].endedAt = None
  /\ \E i \in 1..Len(videoRooms) :
       /\ videoRooms[i].id = resp.roomId
       /\ Len(videoRooms[i].participants) = 0

\* C6: end and PUT on a room by a user who is not its current host return an
\* error and leave the rooms unchanged; by the current host on a room that
\* has not ended they succeed.
C6_OnlyHostEndsOrUpdates ==
  [][\A i \in 1..Len(videoRooms) :
       (/\ resp = NoResp
        /\ resp'.group = "video"
        /\ resp'.route \in {"POST /rooms/:id/end", "PUT /rooms/:id"}
        /\ resp'.handler # "none"
        /\ videoRooms[i].id = resp'.roomId)
       => /\ (resp'.user # videoRooms[i].host) =>
               (resp'.tag = "error" /\ videoRooms' = videoRooms)
          /\ (resp'.user = videoRooms[i].host /\ videoRooms[i].status # "ended") =>
               resp'.tag = "success"]_vars

\* A participant who is not the host has been refused the end of the room
C6_ParticipantRefused ==
  /\ resp.group = "video"
  /\ resp.route = "POST /rooms/:id/end"
  /\ resp.tag = "error"
  /\ resp.before # None
  /\ resp.before[1].status # "ended"
  /\ resp.user \in Range(resp.before[1].participants)
  /\ resp.user # resp.before[1].host

\* C16: a room that has ended stays ended: no request changes its status, a
\* join on it answers 'Cette salle est terminee' and adds nobody, a PUT and an
\* end on it answer an error, and its settings stay as they are; the status
\* of a room only moves from waiting to active, from active to ended or from
\* waiting to ended.
C16_EndedIsTerminal ==
  [][\A i \in 1..Len(videoRooms) :
       LET old == videoRooms[i]
           onIt == /\ resp = NoResp
                   /\ resp'.group = "video"
                   /\ resp'.handler # "none"
                   /\ resp'.roomId = old.id
       IN /\ \E j \in 1..Len(videoRooms') : videoRooms'[j].id = old.id
          /\ \A j \in 1..Len(videoRooms') :
               (videoRooms'[j].id = old.id) =>
                 LET new == videoRooms'[j]
                 IN /\ <<old.status, new.status>> \in
                         {<<"waiting", "waiting">>, <<"waiting", "active">>,
                          <<"waiting", "ended">>, <<"active", "active">>,
                          <<"active", "ended">>, <<"ended", "ended">>}
                    /\ (old.status = "ended") =>
                         /\ \A p \in Range(new.participants) : p \in Range(old.participants)
                         /\ Len(new.participants) <= Len(old.participants)
                         /\ new.name = old.name
                         /\ new.isPrivate = old.isPrivate
                         /\ new.maxParticipants = old.maxParticipants
                         /\ new.password = old.password
          /\ (old.status = "ended" /\ onIt /\ resp'.route = "POST /rooms/:id/join") =>
               /\ resp'.tag = "error"
               /\ resp'.message = "Cette salle est terminee"
               /\ videoRooms' = videoRooms
          /\ (/\ old.status = "ended"
              /\ onIt
              /\ resp'.route \in {"PUT /rooms/:id", "POST /rooms/:id/end"})
             => (resp'.tag = "error" /\ videoRooms' = videoRooms)]_vars

\* A join has been refused on an ended room that has a free place and no
\* password
C16_JoinOnEndedRoomRefused ==
  /\ resp.group = "video"
  /\ resp.route = "POST /rooms/:id/join"
  /\ resp.message = "Cette salle est terminee"
  /\ resp.before # None
  /\ resp.before[1].status = "ended"
  /\ resp.before[1].password = Undef
  /\ Len(resp.before[1].participants) = 1
  /\ resp.user \notin Range(resp.before[1].participants)

\* C17: in every reachable state the number of participants of each room is
\* at most its maxParticipants, also after a PUT of the host that changes
\* maxParticipants while participants are present.
C17_ParticipantsWithinMax ==
  \A i \in 1..Len(videoRooms) :
    Len(videoRooms[i].participants) <= videoRooms[i].maxParticipants

\* C18: a response of GET /rooms, GET /rooms/:id, POST /rooms/:id/join or
\* GET /history to a caller who is not the current host of a room carries no
\* password of that room, in every branch of those handlers.
C18_PasswordOnlyToHost ==
  (/\ resp.group = "video"
   /\ resp.route \in {"GET /rooms", "GET /rooms/:id", "POST /rooms/:id/join", "GET /history"}
   /\ resp.handler # "none")
  => /\ \A k \in 1..Len(resp.rooms) :
          (resp.rooms[k].host # resp.user) => (resp.rooms[k].password = Undef)
     /\ (resp.room # None /\ resp.room[1].host # resp.user) =>
          (resp.room[1].password = Undef)

\* C19: in every reachable state the host of a room with participants is one
\* of them; a room just created has its creator as host and only
\* participant; a host who is not a participant is the host of a room without
\* participants, which has ended.
C19_HostAmongParticipants ==
  /\ \A i \in 1..Len(videoRooms) :
       LET room == videoRooms[i]
       IN /\ (Len(room.participants) > 0) => (room.host \in Range(room.participants))
          /\ (room.host \notin Range(room.participants)) =>
               (Len(room.participants) = 0 /\ room.status = "ended")
          /\ (/\ resp.group = "video"
              /\ resp.route = "POST /rooms"
              /\ resp.tag = "success"
              /\ resp.roomId = room.id)
             => /\ room.host = resp.user
                /\ room.participants = <<resp.user>>
  /\ (resp.group = "video" /\ resp.route = "POST /rooms" /\ resp.tag = "success") =>
       \E i \in 1..Len(videoRooms) : videoRooms[i].id = resp.roomId

\* The host has left a room of two: the one who stays is the host
C19_HostLeftRoomOfTwo ==
  /\ resp.group = "video"
  /\ resp.route = "POST /rooms/:id/leave"
  /\ resp.tag = "success"
  /\ resp.before # None
  /\ resp.before[1].host = resp.user
  /\ Len(resp.before[1].participants) = 2
  /\ \E i \in 1..Len(videoRooms) :
       /\ videoRooms[i].id = resp.roomId
       /\ videoRooms[i].participants = <<videoRooms[i].host>>
       /\ videoRooms[i].host # resp.user

\* C20: a room is created "waiting"; it becomes "active" at the join that
\* brings its participants to two and at no other step; no step puts a room
\* back to "waiting", and an "active" room that drops to one participant stays
\* "active"; so a "waiting" room has one participant, its host.
C20_WaitingUntilSecondParticipant ==
  [][/\ \A j \in 1..Len(videoRooms') :
          LET new == videoRooms'[j]
          IN /\ (new.status = "waiting") => (new.participants = <<new.host>>)
             /\ (\A i \in 1..Len(videoRooms) : videoRooms[i].id # new.id) =>
                  /\ new.status = "waiting"
                  /\ resp'.route = "POST /rooms"
             /\ \A i \in 1..Len(videoRooms) :
                  (videoRooms[i].id = new.id) =>
                    LET old == videoRooms[i]
                        secondJoin == /\ resp = NoResp
                                      /\ resp'.group = "video"
                                      /\ resp'.route = "POST /rooms/:id/join"
                                      /\ resp'.tag = "success"
                                      /\ resp'.roomId = old.id
                                      /\ old.status = "waiting"
                                      /\ Len(old.participants) = 1
                                      /\ Len(new.participants) = 2
                    IN /\ (new.status = "waiting") => (old.status = "waiting")
                       /\ (old.status = "waiting" /\ new.status = "active") <=> secondJoin
                       /\ (/\ old.status = "active"
                           /\ Len(old.participants) > 1
                           /\ Len(new.participants) = 1) =>
                            (new.status = "active")
    ]_vars

\* A participant has left an active room of two, which stays active with its host alone
C20_ActiveRoomBackToOne ==
  /\ resp.group = "video"
  /\ resp.route = "POST /rooms/:id/leave"
  /\ resp.tag = "success"
  /\ resp.before # None
  /\ resp.before[1].status = "active"
  /\ resp.before[1].host # resp.user
  /\ Len(resp.before[1].participants) = 2
  /\ \E i \in 1..Len(videoRooms) :
       /\ videoRooms[i].id = resp.roomId
       /\ videoRooms[i].status = "active"
       /\ Len(videoRooms[i].participants) = 1

\* C21: a join of a room that has not ended, by a user who is already one of
\* its participants, answers success and leaves the rooms as they are (the
\* participants, host, status and updatedAt among the rest), whatever
\* password is supplied and whether the room is full or not; and no user is
\* twice in the participants of a room.
C21_JoinIdempotent ==
  [][/\ (/\ resp = NoResp
          /\ resp'.group = "video"
          /\ resp'.route = "POST /rooms/:id/join"
          /\ resp'.handler # "none"
          /\ resp'.before # None
          /\ resp'.before[1].status # "ended"
          /\ resp'.user \in Range(resp'.before[1].participants))
         => /\ resp'.tag = "success"
            /\ videoRooms' = videoRooms
     /\ \A i \in 1..Len(videoRooms') :
          \A k, l \in 1..Len(videoRooms'[i].participants) :
            (videoRooms'[i].participants[k] = videoRooms'[i].participants[l]) => (k = l)
    ]_vars

\* A participant has joined again a full room with a password, giving a wrong one
C21_RejoinedFullRoomWrongPassword ==
  /\ resp.group = "video"
  /\ resp.route = "POST /rooms/:id/join"
  /\ resp.tag = "success"
  /\ resp.before # None
  /\ resp.user \in Range(resp.before[1].participants)
  /\ Len(resp.before[1].participants) >= resp.before[1].maxParticipants
  /\ resp.before[1].password # Undef
  /\ resp.supplied # resp.before[1].password

\* The joins of a room with a password by a user who is not in it: the user
\* is added only with the room's password, and a join without it or with
\* another one is answered "Mot de passe incorrect" with the rooms unchanged.
\* With openOnly the second part is about the rooms that have not ended and
\* are not full, the ones whose join reaches the password test.
PasswordJoins(openOnly) ==
  (/\ resp = NoResp
   /\ resp'.group = "video"
   /\ resp'.route = "POST /rooms/:id/join"
   /\ resp'.handler # "none"
   /\ resp'.before # None
   /\ resp'.before[1].password # Undef
   /\ resp'.user \notin Range(resp'.before[1].participants))
  => LET room == resp'.before[1]
         open == room.status # "ended" /\ ~RoomIsFull(room)
     IN /\ (videoRooms' # videoRooms) => (resp'.supplied = room.password)
        /\ (\E i \in 1..Len(videoRooms') :
              /\ videoRooms'[i].id = room.id
              /\ resp'.user \in Range(videoRooms'[i].participants))
             => (resp'.supplied = room.password)
        /\ (resp'.supplied # room.password /\ (openOnly => open))
             => /\ resp'.tag = "error"
                /\ resp'.message = "Mot de passe incorrect"
                /\ videoRooms' = videoRooms
        /\ (resp'.supplied # room.password) => (videoRooms' = videoRooms)

\* C22: a user who is not a participant joins a room with a password only by
\* supplying the room's current password; in a room that has not ended and is
\* not full, a join without password or with another one is answered
\* "Mot de passe incorrect" and changes nothing; in an ended or a full room it
\* changes nothing either.
C22_PasswordGuardsJoin == [][PasswordJoins(TRUE)]_vars

\* C22 as stated: every join without the room's password is answered
\* "Mot de passe incorrect", the ended and the full rooms included.
C22_WrongPasswordAlwaysNamed == [][PasswordJoins(FALSE)]_vars

\* The host has changed the settings of a waiting room with a password, and
\* a join with another password is refused
C22_WrongPasswordAfterUpdate ==
  /\ resp.group = "video"
  /\ resp.route = "POST /rooms/:id/join"
  /\ resp.message = "Mot de passe incorrect"
  /\ resp.before # None
  /\ resp.before[1].status = "waiting"
  /\ resp.before[1].updatedAt > resp.before[1].createdAt
  /\ resp.supplied # Undef
  /\ resp.supplied # resp.before[1].password

\* C23: GET /rooms never lists a private room; GET /rooms/:id on a private
\* room gives the room to its host and to its participants, and answers any
\* other caller with the error "Acces non autorise a cette salle privee" and
\* no room.
C23_PrivateRoomsHidden ==
  [][/\ (/\ resp = NoResp
          /\ resp'.group = "video"
          /\ resp'.route = "GET /rooms"
          /\ resp'.handler # "none")
         => \A k \in 1..Len(resp'.rooms) :
              \E i \in 1..Len(videoRooms) :
                /\ videoRooms[i].id = resp'.rooms[k].id
                /\ ~videoRooms[i].isPrivate
     /\ (/\ resp = NoResp
          /\ resp'.group = "video"
          /\ resp'.route = "GET /rooms/:id"
          /\ resp'.handler # "none"
          /\ resp'.before # None
          /\ resp'.before[1].isPrivate)
         => LET room == resp'.before[1]
                member == resp'.user = room.host \/ resp'.user \in Range(room.participants)
            IN /\ member => /\ resp'.tag = "success"
                            /\ resp'.room # None
                            /\ resp'.room[1].id = room.id
               /\ ~member => /\ resp'.tag = "error"
                             /\ resp'.message = "Acces non autorise a cette salle privee"
                             /\ resp'.room = None
                             /\ resp'.rooms = <<>>
    ]_vars

\* A caller outside an active private room left with one participant is refused
C23_FormerParticipantRefused ==
  /\ resp.group = "video"
  /\ resp.route = "GET /rooms/:id"
  /\ resp.tag = "error"
  /\ resp.message = "Acces non autorise a cette salle privee"
  /\ resp.before # None
  /\ resp.before[1].isPrivate
  /\ resp.before[1].status = "active"
  /\ Len(resp.before[1].participants) = 1

-----------------------------------------------------------------------------
(* Properties of the likes (SpecLikes) *)

\* C2: after two like calls in a row by one user on one post, with no other
\* like request on that post between them, the post is liked by the same
\* users, and as many, as before the first call; when the user had not liked
\* the post the first call answers liked = true with count + 1 and the second
\* liked = false with the original count.
C2_LikeTwiceRestores ==
  \A i \in 1..Len(posts) :
    (likeLog.n = 2 /\ posts[i].id = likeLog.post) =>
      /\ Range(posts[i].likes) = Range(likeLog.before)
      /\ Len(posts[i].likes) = Len(likeLog.before)
      /\ (likeLog.user \notin Range(likeLog.before)) =>
           /\ likeLog.r1 = [liked |-> TRUE, likesCount |-> Len(likeLog.before) + 1]
           /\ likeLog.r2 = [liked |-> FALSE, likesCount |-> Len(likeLog.before)]

\* A user liked and unliked a post somebody else likes
C2_LikedThenUnliked ==
  /\ likeLog.n = 2
  /\ Len(likeLog.before) = 1
  /\ likeLog.user \notin Range(likeLog.before)
  /\ \E i \in 1..Len(posts) : posts[i].id = likeLog.post

-----------------------------------------------------------------------------
(* Properties of the posts (SpecPosts) *)

\* C14: the content and images of a post change only in a successful PUT of
\* its author, and a post leaves the list only in a successful DELETE of its
\* author, which removes that post alone and keeps the others as they were
\* and in their order; PUT and DELETE by another user answer an error and
\* leave the list unchanged; GET /:id, like, comment and the comments listing
\* on the id of a removed post answer the error 'Post non trouve'.
C14_OnlyAuthorEditsOrDeletes ==
  [][/\ \A k \in 1..Len(posts) :
          LET old == posts[k]
          IN /\ (~\E j \in 1..Len(posts') : posts'[j].id = old.id) =>
                  /\ resp'.group = "posts"
                  /\ resp'.route = "DELETE /:id"
                  /\ resp'.tag = "success"
                  /\ resp'.postId = old.id
                  /\ resp'.user = old.author
                  /\ posts' = SelectSeq(posts, LAMBDA q : q.id # old.id)
             /\ \A j \in 1..Len(posts') :
                  (posts'[j].id = old.id) =>
                    /\ posts'[j].author = old.author
                    /\ (posts'[j].content # old.content \/ posts'[j].images # old.images) =>
                         /\ resp'.group = "posts"
                         /\ resp'.route = "PUT /:id"
                         /\ resp'.tag = "success"
                         /\ resp'.postId = old.id
                         /\ resp'.user = old.author
             /\ (/\ resp = NoResp
                 /\ resp'.group = "posts"
                 /\ resp'.route \in {"PUT /:id", "DELETE /:id"}
                 /\ resp'.handler # "none"
                 /\ resp'.postId = old.id
                 /\ resp'.user # old.author)
                => (resp'.tag = "error" /\ posts' = posts)
     /\ (/\ resp = NoResp
         /\ resp'.group = "posts"
         /\ resp'.route \in {"GET /:id", "POST /:id/like", "POST /:id/comments",
                              "GET /:id/comments"}
         /\ resp'.handler # "none"
         /\ resp'.postId \in 1..nextId.post
         /\ \A k \in 1..Len(posts) : posts[k].id # resp'.postId)
        => /\ resp'.tag = "error"
           /\ resp'.message = "Post non trouve"
           /\ posts' = posts]_vars

\* A like on the id of a deleted post has been answered, another post remains
C14_LikeOnDeletedPost ==
  /\ resp.group = "posts"
  /\ resp.route = "POST /:id/like"
  /\ resp.tag = "error"
  /\ resp.postId \in 1..nextId.post
  /\ Len(posts) = 1
  /\ nextId.post = 2

-----------------------------------------------------------------------------
(* Properties of the marketplace (SpecMarket) *)

\* C3: GET /:id of a product created by POST / and not updated, deleted or
\* marked sold since answers success with the submitted title, description,
\* price, currency, category, condition, images, location and tags, the
\* caller of the creation as seller, and status 'available', whatever other
\* products were created since.
C3_CreatedProductRead ==
  (/\ resp.group = "marketplace"
   /\ resp.route = "GET /:id"
   /\ resp.productId \in 1..Len(created)
   /\ ~created[resp.productId].touched)
  => /\ resp.tag = "success"
     /\ resp.product # None
     /\ LET p == resp.product[1]
            body == created[resp.productId].body
        IN /\ p.id = resp.productId
           /\ p.title = body.title
           /\ p.description = body.description
           /\ p.price = body.price
           /\ p.currency = body.currency
           /\ p.category = body.category
           /\ p.condition = body.condition
           /\ p.images = body.images
           /\ p.location = body.location
           /\ p.tags = body.tags
           /\ p.seller = created[resp.productId].seller
           /\ p.seller # 0
           /\ p.status = "available"

\* The first product is read after a second one was created and updated
C3_ReadAfterOtherCreation ==
  /\ resp.group = "marketplace"
  /\ resp.route = "GET /:id"
  /\ resp.productId = 1
  /\ Len(created) = 2
  /\ ~created[1].touched
  /\ created[2].touched
  /\ resp.tag = "success"

\* What the listing answers for the query it was sent: every returned product
\* has the wanted status and passes the filters, total counts the stored
\* products that do, totalPages is the ceiling of total / limit.  An empty
\* category string is a filter when emptyCategoryFilters.
ListingAnswers(emptyCategoryFilters) ==
  LET q == resp.query[1]
      limit == OrElse(q.limit, 20)
      Lower(str) == [k \in 1..Len(str) |-> LowerChar(str[k])]
      Contains(str, term) ==
        \E a \in 1..(Len(str) + 1) : \E z \in 0..Len(str) :
          SubSeq(Lower(str), a, z) = Lower(term)
      Wanted(p) ==
        /\ p.status = (IF q.status = Undef THEN "available" ELSE q.status)
        /\ (q.category # Undef /\ (emptyCategoryFilters \/ q.category # ""))
             => p.category = q.category
        /\ (q.minPrice # None) => p.price >= q.minPrice[1]
        /\ (q.maxPrice # None) => p.price <= q.maxPrice[1]
        /\ (q.condition # Undef) => p.condition = q.condition
        /\ (q.search # None) =>
             \/ Contains(p.title, q.search[1])
             \/ Contains(p.description, q.search[1])
             \/ \E k \in 1..Len(p.tags) : Contains(p.tags[k], q.search[1])
  IN /\ \A k \in 1..Len(resp.products) : Wanted(resp.products[k])
     /\ resp.total = Cardinality({k \in 1..Len(products) : Wanted(products[k])})
     /\ resp.totalPages * limit >= resp.total
     /\ (resp.totalPages - 1) * limit < resp.total

\* C10 (as amended): GET / returns only products of the wanted status
\* ('available' when none is given) that pass every supplied filter, an empty
\* category string counting as no category filter; total is the number of
\* stored products that do and totalPages is ceil(total / limit).
C10_ListingFiltersEmptyCategoryIgnored ==
  (resp.group = "marketplace" /\ resp.route = "GET /") => ListingAnswers(FALSE)

\* A listing with minPrice 0 and maxPrice 5 among the reserved products has
\* found one of the two stored products
C10_PriceFiltersApplied ==
  /\ resp.group = "marketplace"
  /\ resp.route = "GET /"
  /\ resp.query[1].minPrice = Some(0)
  /\ resp.query[1].maxPrice = Some(5)
  /\ resp.total = 1
  /\ Len(products) = 2

\* C10 (as stated): the same with category equality for every category the
\* query carries, the empty string included.
C10_ListingFiltersAsStated ==
  (resp.group = "marketplace" /\ resp.route = "GET /") => ListingAnswers(TRUE)

\* C11: the listing is cut out of one order of the matching products: that
\* order holds every matching product exactly once, ascending in the sort key
\* for 'asc' and descending for 'desc' (default createdAt, desc); page p is
\* the positions (p-1)*limit .. p*limit-1 of it, at most limit products; the
\* pages 1..totalPages put end to end are that order and a page past
\* totalPages is empty; the stored product list is left as it was.
C11_ListingSortedAndPaged ==
  [][(resp = NoResp /\ resp'.group = "marketplace" /\ resp'.route = "GET /") =>
       LET q == resp'.query[1]
           S == resp'.order
           F == FilterProducts(products', q)
           by == IF q.sortBy = Undef THEN "createdAt" ELSE q.sortBy
           asc == q.sortOrder = "asc"
           limit == OrElse(q.limit, 20)
           page == OrElse(q.page, 1)
           Key(x) == IF by = "price" THEN x.price ELSE x.createdAt
           PageAt(n) == ListProducts(S, [q EXCEPT !.page = Some(n)]).products
           RECURSIVE Concat(_)
           Concat(n) == IF n = 0 THEN <<>> ELSE Concat(n - 1) \o PageAt(n)
       IN /\ Len(S) = Len(F)
          /\ {S[k].id : k \in 1..Len(S)} = {F[k].id : k \in 1..Len(F)}
          /\ \A k \in 1..Len(S) : S[k] \in Range(F)
          /\ \A i, j \in 1..Len(S) :
               i < j => IF asc THEN Key(S[i]) <= Key(S[j]) ELSE Key(S[i]) >= Key(S[j])
          /\ Len(resp'.products) <= limit
          /\ \A k \in 1..Len(S) :
               ((page - 1) * limit < k /\ k <= page * limit)
                 => (/\ k - (page - 1) * limit <= Len(resp'.products)
                     /\ resp'.products[k - (page - 1) * limit] = S[k])
          /\ Len(resp'.products) =
               Cardinality({k \in 1..Len(S) : (page - 1) * limit < k /\ k <= page * limit})
          /\ Concat(resp'.totalPages) = S
          /\ PageAt(resp'.totalPages + 1) = <<>>
          /\ (page > resp'.totalPages) => resp'.products = <<>>
          /\ products' = products]_vars

\* The second page of one product each has been served out of two products
\* created at different times
C11_SecondPageServed ==
  /\ resp.group = "marketplace"
  /\ resp.route = "GET /"
  /\ resp.query[1].page = Some(2)
  /\ resp.query[1].limit = Some(1)
  /\ resp.totalPages = 2
  /\ Len(resp.products) = 1
  /\ resp.products[1] = resp.order[2]
  /\ resp.order[1].createdAt > resp.order[2].createdAt

\* C12: a successful PUT /:id changes, in the addressed product, only the
\* fields the body carries (title, description, price, condition, images,
\* location, status, tags) and updatedAt: id, seller, currency, category,
\* createdAt and the fields the body does not carry are as before, the product
\* keeps its place in the list, and every other product is unchanged.
C12_UpdateChangesOnlyBodyFields ==
  [][(/\ resp = NoResp
      /\ resp'.group = "marketplace"
      /\ resp'.route = "PUT /:id"
      /\ resp'.tag = "success")
     => /\ Len(products') = Len(products)
        /\ \E k \in 1..Len(products) : products[k].id = resp'.productId
        /\ \A k \in 1..Len(products) :
             LET old == products[k]
                 new == products'[k]
                 b == resp'.body[1]
             IN IF old.id # resp'.productId
                THEN new = old
                ELSE /\ new.id = old.id
                     /\ new.seller = old.seller
                     /\ new.currency = old.currency
                     /\ new.category = old.category
                     /\ new.createdAt = old.createdAt
                     /\ new.title = (IF b.title = None THEN old.title ELSE b.title[1])
                     /\ new.description =
                          (IF b.description = None THEN old.description ELSE b.description[1])
                     /\ new.price = (IF b.price = None THEN old.price ELSE b.price[1])
                     /\ new.condition =
                          (IF b.condition = None THEN old.condition ELSE b.condition[1])
                     /\ new.images = (IF b.images = None THEN old.images ELSE b.images[1])
                     /\ new.location =
                          (IF b.location = None THEN old.location ELSE b.location[1])
                     /\ new.status = (IF b.status = None THEN old.status ELSE b.status[1])
                     /\ new.tags = (IF b.tags = None THEN old.tags ELSE b.tags[1])
                     /\ resp'.product = Some(new)]_vars

\* The second of two products, which has a location, has been updated with a
\* body that carries a status only
C12_StatusOnlyUpdate ==
  /\ resp.group = "marketplace"
  /\ resp.route = "PUT /:id"
  /\ resp.tag = "success"
  /\ resp.body = Some([NoUpdate EXCEPT !.status = Some("reserved")])
  /\ Len(products) = 2
  /\ resp.product[1].location = "Paris"
  /\ resp.product[1].status = "reserved"
  /\ resp.product[1].updatedAt > resp.product[1].createdAt

\* C13: PUT /:id, DELETE /:id and POST /:id/mark-sold on a product by a caller
\* without a valid token or by a user other than its seller answer an error
\* and leave the product list unchanged; a product is modified or removed
\* only in a successful request of its seller on it; the seller of a product
\* never changes.
C13_OnlySellerModifies ==
  [][\A k \in 1..Len(products) :
       LET old == products[k]
       IN /\ \A j \in 1..Len(products') :
               products'[j].id = old.id => products'[j].seller = old.seller
          /\ (~\E j \in 1..Len(products') : products'[j] = old) =>
               /\ resp'.group = "marketplace"
               /\ resp'.route \in {"PUT /:id", "DELETE /:id", "POST /:id/mark-sold"}
               /\ resp'.tag = "success"
               /\ resp'.productId = old.id
               /\ resp'.user = old.seller
          /\ (/\ resp = NoResp
              /\ resp'.group = "marketplace"
              /\ resp'.route \in {"PUT /:id", "DELETE /:id", "POST /:id/mark-sold"}
              /\ resp'.productId = old.id
              /\ resp'.user # old.seller)
             => (resp'.tag = "error" /\ products' = products)]_vars

\* A registered user has been refused the deletion of another seller's product
C13_OtherUserRefused ==
  /\ resp.group = "marketplace"
  /\ resp.route = "DELETE /:id"
  /\ resp.tag = "error"
  /\ resp.user # 0
  /\ \E k \in 1..Len(products) :
       products[k].id = resp.productId /\ products[k].seller # resp.user

\* C27: a mark-sold answered with success, which is one by the seller, leaves
\* the product "sold", whether it was sold already or not, with updatedAt
\* set and every other field, and every other product, as before.  A product
\* that is "sold" is in no GET / listing asked with another status or with
\* none, and stays "sold" until a PUT by its seller carries another status.
C27_SoldUntilSellerUpdates ==
  [][/\ (/\ resp = NoResp
          /\ resp'.group = "marketplace"
          /\ resp'.route = "POST /:id/mark-sold"
          /\ resp'.tag = "success")
         => /\ Len(products') = Len(products)
            /\ \E k \in 1..Len(products) : products[k].id = resp'.productId
            /\ \A k \in 1..Len(products) :
                 IF products[k].id # resp'.productId
                 THEN products'[k] = products[k]
                 ELSE /\ products[k].seller = resp'.user
                      /\ products'[k].status = "sold"
                      /\ products'[k].updatedAt = clock
                      /\ products'[k] = [products[k] EXCEPT !.status = "sold",
                                                            !.updatedAt = clock]
                      /\ resp'.product = Some(products'[k])
     /\ (/\ resp = NoResp
          /\ resp'.group = "marketplace"
          /\ resp'.route = "POST /:id/mark-sold"
          /\ resp'.handler # "none")
         => \A k \in 1..Len(products) :
              (/\ products[k].id = resp'.productId
               /\ products[k].seller = resp'.user
               /\ products[k].status = "sold")
              => (resp'.tag = "success" /\ products'[k].status = "sold")
     /\ (/\ resp = NoResp
          /\ resp'.group = "marketplace"
          /\ resp'.route = "GET /"
          /\ resp'.query # None
          /\ resp'.query[1].status # "sold")
         => \A k \in 1..Len(products) :
              (products[k].status = "sold") =>
                /\ \A n \in 1..Len(resp'.order) : resp'.order[n].id # products[k].id
                /\ \A n \in 1..Len(resp'.products) : resp'.products[n].id # products[k].id
     /\ \A k \in 1..Len(products) : \A n \in 1..Len(products') :
          (/\ products'[n].id = products[k].id
           /\ products[k].status = "sold"
           /\ products'[n].status # "sold")
          => /\ resp = NoResp
             /\ resp'.group = "marketplace"
             /\ resp'.route = "PUT /:id"
             /\ resp'.tag = "success"
             /\ resp'.productId = products[k].id
             /\ resp'.user = products[k].seller
             /\ resp'.body # None
             /\ resp'.body[1].status = Some(products'[n].status)
    ]_vars

\* The seller has marked sold one product of two, after the time of its
\* creation; the other one is still available
C27_OneOfTwoMarkedSold ==
  /\ resp.group = "marketplace"
  /\ resp.route = "POST /:id/mark-sold"
  /\ resp.tag = "success"
  /\ Len(products) = 2
  /\ \E k, n \in 1..Len(products) :
       /\ products[k].id = resp.productId
       /\ products[k].status = "sold"
       /\ products[k].updatedAt > products[k].createdAt
       /\ products[n].status = "available"

-----------------------------------------------------------------------------
(* Properties of auth (SpecAuth) *)

\* C8: POST /login answers success, with the user of that email and a token
\* for that user, exactly when userCredentials maps the given email to the
\* given password; otherwise it answers an error and issues no token; users
\* and userCredentials are left as they were either way.
C8_LoginIffCredentialsMatch ==
  [][(resp = NoResp /\ resp'.group = "auth" /\ resp'.route = "POST /login") =>
       LET match == /\ resp'.email \in DOMAIN userCredentials
                    /\ userCredentials[resp'.email] = resp'.password
       IN /\ (resp'.tag = "success") <=> match
          /\ match =>
               /\ resp'.tag = "success"
               /\ resp'.user # None
               /\ resp'.user[1].email = resp'.email
               /\ resp'.user[1] \in Range(users)
               /\ resp'.token.present
               /\ JwtVerify(resp'.token).ok
               /\ resp'.token.userId = resp'.user[1].id
               /\ resp'.token \in issued'
          /\ (~match) =>
               /\ resp'.tag = "error"
               /\ resp'.user = None
               /\ ~resp'.token.present
               /\ issued' = issued
          /\ users' = users
          /\ userCredentials' = userCredentials]_vars

\* A login with "password2" has succeeded while another account holds
\* "password1"
C8_LoginAnswered ==
  /\ resp.group = "auth"
  /\ resp.route = "POST /login"
  /\ resp.tag = "success"
  /\ resp.password = "password2"
  /\ \E e \in DOMAIN userCredentials : userCredentials[e] = "password1"

\* C9: GET /verify with a token that register or login issued answers success
\* with the user whose id the token was issued for, whatever was served since
\* (profile updates, logout); with no token, or a token the service did not
\* issue, it answers an error and no user.
C9_IssuedTokenVerifies ==
  [][(resp = NoResp /\ resp'.group = "auth" /\ resp'.route = "GET /verify") =>
       /\ (resp'.bearer \in issued) =>
            /\ resp'.tag = "success"
            /\ resp'.user # None
            /\ resp'.user[1].id = resp'.bearer.userId
            /\ resp'.user[1].email = resp'.bearer.email
       /\ (resp'.bearer \notin issued) =>
            /\ resp'.tag = "error"
            /\ resp'.user = None]_vars

\* A token is verified after its user has updated the profile
C9_VerifiedAfterProfileUpdate ==
  /\ resp.group = "auth"
  /\ resp.route = "GET /verify"
  /\ resp.tag = "success"
  /\ resp.bearer \in issued
  /\ resp.user # None
  /\ resp.user[1].firstName = "G"
  /\ resp.user[1].bio = "hi"

\* C24: no two registered users share an email, a username or an id.  A
\* register whose email or username is taken answers an error and adds
\* nothing; a register that adds a user adds one whose email and username
\* were free, and every registration suspended at jwt.sign, like every
\* registration answered with success, is that of a user of its own: of the
\* concurrent registers with one email or one username at most one succeeds.
\* No step removes a user or changes the id, email or username of one.
C24_EmailsAndUsernamesUnique ==
  [][/\ \A i, j \in 1..Len(users') :
          (i # j) => /\ users'[i].email # users'[j].email
                     /\ users'[i].username # users'[j].username
                     /\ users'[i].id # users'[j].id
     /\ Len(users') >= Len(users)
     /\ \A i \in 1..Len(users) :
          /\ users'[i].id = users[i].id
          /\ users'[i].email = users[i].email
          /\ users'[i].username = users[i].username
     /\ (Len(users') > Len(users)) =>
          /\ Len(users') = Len(users) + 1
          /\ resp = NoResp
          /\ resp' = NoResp
          /\ \E c \in signing' \ signing :
               /\ signing' = signing \cup {c}
               /\ c = users'[Len(users')].id
     /\ (/\ resp = NoResp
          /\ resp'.group = "auth"
          /\ resp'.route = "POST /register"
          /\ resp'.tag = "error")
         => /\ users' = users
            /\ userCredentials' = userCredentials
            /\ signing' = signing
            /\ \E i \in 1..Len(users) :
                 users[i].email = resp'.email \/ users[i].username = resp'.username
     /\ (/\ resp = NoResp
          /\ resp'.group = "auth"
          /\ resp'.route = "POST /register"
          /\ resp'.tag = "success")
         => /\ users' = users
            /\ \E c \in signing :
                 /\ signing' = signing \ {c}
                 /\ resp'.user # None
                 /\ resp'.user[1].id = c
                 /\ resp'.user[1] \in Range(users)
     /\ \A c \in signing' : \E i \in 1..Len(users') : users'[i].id = c
    ]_vars

\* A register is refused for its email while the registration that took the
\* email is still waiting for its token
C24_RefusedWhileFirstIsSigning ==
  /\ resp.group = "auth"
  /\ resp.route = "POST /register"
  /\ resp.tag = "error"
  /\ \E c \in signing :
       \E i \in 1..Len(users) :
         /\ users[i].id = c
         /\ users[i].email = resp.email
         /\ users[i].username # resp.username

\* C25: userCredentials has an entry for the email of every registered user
\* and for no other email; no step removes a user or an entry, and a step
\* that adds one adds the other.  So a login whose email and password match
\* userCredentials is never answered "Utilisateur non trouve", and neither
\* is the verification of a token that register or login issued.
C25_CredentialsMatchUsers ==
  [][/\ DOMAIN userCredentials' = {users'[i].email : i \in 1..Len(users')}
     /\ DOMAIN userCredentials \subseteq DOMAIN userCredentials'
     /\ Len(users) <= Len(users')
     /\ (Len(users') > Len(users)) <=> (DOMAIN userCredentials' # DOMAIN userCredentials)
     /\ (/\ resp = NoResp
          /\ resp'.group = "auth"
          /\ resp'.route = "POST /login"
          /\ resp'.email \in DOMAIN userCredentials
          /\ userCredentials[resp'.email] = resp'.password)
         => resp'.message # "Utilisateur non trouve"
     /\ (/\ resp = NoResp
          /\ resp'.group = "auth"
          /\ resp'.route = "GET /verify"
          /\ resp'.bearer \in issued)
         => resp'.message # "Utilisateur non trouve"
    ]_vars

\* A user logs in while the registration of the account is still waiting
\* for its token
C25_LoginWhileRegistrationIsSigning ==
  /\ resp.group = "auth"
  /\ resp.route = "POST /login"
  /\ resp.tag = "success"
  /\ resp.user # None
  /\ resp.user[1].id \in signing

\* C26: POST /logout answers success whatever token it is sent with, and
\* changes nothing: the stores, the issued tokens and the suspended
\* registrations are as before, and every bearer gets from GET /verify and
\* from the middleware of the authenticated routes the answer it got before.
C26_LogoutChangesNothing ==
  [][(resp = NoResp /\ resp'.group = "auth" /\ resp'.route = "POST /logout") =>
       /\ resp'.tag = "success"
       /\ resp'.message = "Deconnexion reussie"
       /\ stores' = stores
       /\ issued' = issued
       /\ signing' = signing
       /\ \A b \in Bearers :
            /\ Verify(users', b) = Verify(users, b)
            /\ Derive(b)' = Derive(b)
       /\ \A b \in issued :
            (b = resp'.bearer) => /\ Verify(users', b).tag = "success"
                                  /\ ~Derive(b)'.thrown
    ]_vars

\* A logout sent with an issued token has been answered, and GET /verify
\* still accepts the token
C26_TokenValidAfterLogout ==
  /\ resp.group = "auth"
  /\ resp.route = "POST /logout"
  /\ resp.tag = "success"
  /\ resp.bearer \in issued
  /\ Verify(users, resp.bearer).tag = "success"
  /\ Verify(users, resp.bearer).user[1].id = resp.bearer.userId

-----------------------------------------------------------------------------
(* Properties of the middlewares (Spec) *)

RouteGroups == {"auth", "users", "posts", "marketplace", "video"}

\* C15 (as amended): every response of a handler of the route groups auth,
\* users, posts, marketplace and video is tagged success or error, never
\* both and never neither, and a response tagged error leaves every store
\* (users, credentials, posts with likes and comments, products, rooms) as it
\* was before the request.  The health check GET / of the app answers an
\* object with neither tag.
C15_GroupResponsesTagged ==
  [][(resp = NoResp /\ resp' # NoResp /\ resp'.handler # "none") =>
       IF resp'.group \in RouteGroups
       THEN /\ resp'.tag \in {"success", "error"}
            /\ (resp'.tag = "error") => (stores' = stores)
       ELSE /\ resp'.group = "app"
            /\ resp'.tag = "none"
            /\ stores' = stores]_vars

\* A registration with a taken email has been answered with an error
C15_DuplicateRegistrationRefused ==
  /\ resp.group = "auth"
  /\ resp.route = "POST /register"
  /\ resp.tag = "error"
  /\ Len(users) = 1

\* C15 (as stated): every handler response is tagged success or error, and a
\* response tagged error leaves every store as it was.
C15_EveryResponseTagged ==
  [][(resp = NoResp /\ resp' # NoResp /\ resp'.handler # "none") =>
       /\ resp'.tag \in {"success", "error"}
       /\ (resp'.tag = "error") => (stores' = stores)]_vars

MutatingProductRoutes == {"POST /", "PUT /:id", "DELETE /:id", "POST /:id/mark-sold"}

\* C7 (as amended): a request with a missing token or a token that fails
\* verification modifies no store.  In users, posts and video the middleware
\* throws and no handler runs.  In marketplace the middleware does not throw:
\* the handler runs with currentUser null, and the routes that create, update,
\* delete or mark sold answer the error 'Authentification requise'.
C7_BadTokenChangesNothing ==
  [][(/\ resp = NoResp
      /\ resp' # NoResp
      /\ resp'.bad
      /\ resp'.group \in {"users", "posts", "marketplace", "video"})
     => /\ stores' = stores
        /\ (resp'.group # "marketplace") =>
             (resp'.handler = "none" /\ resp'.tag = "thrown")
        /\ (resp'.group = "marketplace") =>
             /\ resp'.handler = resp'.route
             /\ (resp'.route \in MutatingProductRoutes) =>
                  /\ resp'.tag = "error"
                  /\ resp'.message = "Authentification requise"
                  /\ resp'.user = 0]_vars

\* A creation without a token has reached the marketplace handler
C7_MarketHandlerRanWithoutToken ==
  /\ resp.group = "marketplace"
  /\ resp.route = "POST /"
  /\ resp.bad
  /\ resp.handler = "POST /"
  /\ resp.message = "Authentification requise"

\* C7 (as stated): in users, posts, marketplace and video a request with a
\* missing token or a token that fails verification is thrown out by the
\* middleware: no handler runs and no store is modified.
C7_BadTokenThrownEverywhere ==
  [][(/\ resp = NoResp
      /\ resp' # NoResp
      /\ resp'.bad
      /\ resp'.group \in {"users", "posts", "marketplace", "video"})
     => /\ resp'.handler = "none"
        /\ stores' = stores]_vars

====
